---- MODULE Spec2Model ----
(***************************************************************************)
(* A model of the active_directory wrappers (tjguk/active_directory): the  *)
(* attribute value converters, the flag enumerations, the large-integer    *)
(* timestamp decoders, the COM error translation, the per-server           *)
(* credentials cache and the class-level schema cache used by threads.     *)
(*                                                                         *)
(* Python values are records [t |-> <type tag>, v |-> <payload>].  Byte    *)
(* strings are sequences of 0..255, text strings are sequences of          *)
(* one-character strings.  A call that raises yields [t |-> "raise",       *)
(* v |-> <exception class>].  32-bit COM integers are the signed values    *)
(* pywin32 delivers; integers wider than 32 bits are four base-65536       *)
(* digits <<d3, d2, d1, d0>> with a signed top digit.                      *)
(***************************************************************************)
EXTENDS Integers, Sequences, FiniteSets, TLC

VARIABLES
  component,   \* which part of the package the run exercises
  t_fn,        \* timestamp decoder last called
  t_ad_time,   \* its argument: [HighPart, LowPart] of an IADsLargeInteger
  t_result,    \* what it returned or raised
  f_enums,     \* the Enum objects of constants.py, as built at import
  f_enum,      \* name of the enumeration a flags converter was made for
  f_item,      \* the converter's argument
  f_result,    \* what it returned or raised
  c_converters,  \* active_directory/types.py: the _converters registry
  c_lookup,    \* the attribute read or converter lookup last made
  c_name,      \* the attribute it was made for
  c_had_name,  \* whether a from-AD converter was registered for that name
  c_raw,       \* the value the directory object held
  c_converter, \* the from-AD converter the lookup chose
  c_decoded,   \* what the attribute read returned or raised
  c_encoded,   \* what the to-AD converter made of c_decoded
  e_error,     \* the native error the wrapped call raised
  e_raised,    \* the exception class exc.wrapped raised for it
  cr_cache,    \* _CredentialsCache._cache of the thread: server -> list
  cr_blocks,   \* the Credentials objects whose with block is open, innermost last
  cr_baseline, \* get (server) of every server when the outermost block was entered
  cr_nested,   \* the deepest nesting reached since then
  cr_last,     \* the operation last made on the cache
  cr_got,      \* the server and the result of the last get
  th_pc,       \* where each thread running f of trials/threaded.py is
  th_cred,     \* the cred argument the thread hands to ad.AD
  th_cache,    \* credentials.local of each thread: its cache, server -> list
  th_caches,   \* core._caches of each thread: server and root_dses
  th_initialised,  \* core._thread_status.initialised of each thread
  schemas,     \* ADBase._schemas, the class attribute: class name -> schema
  log_stream,  \* what log.debug_handler has written: (thread, function) records
  th_access,   \* which thread read or wrote which structure
  k_cred,      \* the value last handed to credentials.credentials
  k_result,    \* what it returned or raised
  o_call,      \* the last call of core.open_object and its outcome
  o_open,      \* the last moniker opened by core.open_object and its outcome
  q_pc,        \* where the generator made by query is
  q_connection,  \* the connection argument of query: "None" or "supplied"
  q_conn,      \* the state of the connection the query uses
  q_rows,      \* the records of the recordset not yet passed over
  q_yielded,   \* how many records the generator has yielded
  a_properties,  \* ADBase: self.properties, the property names of the schema
  a_dict,      \* the attributes set in the instance's own __dict__
  a_log,       \* the calls the last operation made on self.com_object
  a_call,      \* the last operation on the ADBase object and its arguments
  r_caches,    \* core._caches of the thread: server and the four caches
  r_call,      \* the last call of a cached function of core and its outcome
  d_parent,    \* the directory: the container each object lies in
  d_rdn,       \* the directory: the relative distinguished name of each object
  d_call,      \* the last move made through ADBase and its outcome
  p_call,      \* the last call of a relative_to and its outcome
  w_parent,    \* the directory walked: the container each object is in
  w_call,      \* the last walk of a container and what it yielded
  g_wrapper,   \* the wrapper class of the object whose properties are read
  g_com,       \* the value the wrapped directory object holds for each property
  g_directory, \* the value the directory holds for each property
  g_delegate_map, \* _delegate_map of the wrapper
  g_last,      \* the last operation made on the wrapper
  g_read,      \* the last read of a property and its outcome
  m_module,    \* the module whose _Members is used
  m_directory, \* the members the directory group holds
  m_set,       \* the contents of the _Members set
  m_pc,        \* none before the set is built, idle, or the method that runs
  m_depth,     \* the frames of the method that runs
  m_call,      \* the last call made on the set and its outcome
  n_member,    \* the groups that are members of each group
  n_fn,        \* walk or member_of_all, whichever was called last
  n_pc,        \* idle, running or done
  n_stack,     \* the frames of the call that runs, the innermost last
  n_raised,    \* the exception the call ended with
  n_yielded,   \* the groups whose entries walk has yielded
  n_result,    \* the set member_of_all returned
  h_pc,        \* none, or where the generator of core.query is
  h_rows,      \* the rows the search has yet to give
  h_search,    \* the search handle: its state and what was done to it
  h_ended      \* how the row iteration ended

timeVars == <<t_fn, t_ad_time, t_result>>
flagVars == <<f_enums, f_enum, f_item, f_result>>
codecVars ==
  <<c_converters, c_lookup, c_name, c_had_name, c_raw, c_converter, c_decoded, c_encoded>>

excVars == <<e_error, e_raised>>
credVars == <<cr_cache, cr_blocks, cr_baseline, cr_nested, cr_last, cr_got>>
threadVars ==
  <<th_pc, th_cred, th_cache, th_caches, th_initialised, schemas, log_stream, th_access>>

factoryVars == <<k_cred, k_result>>
openVars == <<o_call, o_open>>
queryVars == <<q_pc, q_connection, q_conn, q_rows, q_yielded>>
adbaseVars == <<a_properties, a_dict, a_log, a_call>>
coreVars == <<r_caches, r_call>>
moveVars == <<d_parent, d_rdn, d_call>>
pathVars == <<p_call>>
walkVars == <<w_parent, w_call>>
delegateVars == <<g_wrapper, g_com, g_directory, g_delegate_map, g_last, g_read>>
membersVars == <<m_module, m_directory, m_set, m_pc, m_depth, m_call>>
groupsVars == <<n_member, n_fn, n_pc, n_stack, n_raised, n_yielded, n_result>>
searchVars == <<h_pc, h_rows, h_search, h_ended>>

exceptTime ==
  <<component, flagVars, codecVars, excVars, credVars, threadVars, factoryVars,
    openVars, queryVars, adbaseVars, coreVars, moveVars, pathVars, walkVars,
    delegateVars, membersVars, groupsVars, searchVars>>
exceptFlags ==
  <<component, timeVars, codecVars, excVars, credVars, threadVars, factoryVars,
    openVars, queryVars, adbaseVars, coreVars, moveVars, pathVars, walkVars,
    delegateVars, membersVars, groupsVars, searchVars>>
exceptCodec ==
  <<component, timeVars, flagVars, excVars, credVars, threadVars, factoryVars,
    openVars, queryVars, adbaseVars, coreVars, moveVars, pathVars, walkVars,
    delegateVars, membersVars, groupsVars, searchVars>>
exceptExc ==
  <<component, timeVars, flagVars, codecVars, credVars, threadVars, factoryVars,
    openVars, queryVars, adbaseVars, coreVars, moveVars, pathVars, walkVars,
    delegateVars, membersVars, groupsVars, searchVars>>
exceptCred ==
  <<component, timeVars, flagVars, codecVars, excVars, threadVars, factoryVars,
    openVars, queryVars, adbaseVars, coreVars, moveVars, pathVars, walkVars,
    delegateVars, membersVars, groupsVars, searchVars>>
exceptThreads ==
  <<component, timeVars, flagVars, codecVars, excVars, credVars, factoryVars, openVars,
    queryVars, adbaseVars, coreVars, moveVars, pathVars, walkVars, delegateVars,
    membersVars, groupsVars, searchVars>>
exceptFactory ==
  <<component, timeVars, flagVars, codecVars, excVars, credVars, threadVars, openVars,
    queryVars, adbaseVars, coreVars, moveVars, pathVars, walkVars, delegateVars,
    membersVars, groupsVars, searchVars>>
exceptOpen ==
  <<component, timeVars, flagVars, codecVars, excVars, credVars, threadVars,
    factoryVars, queryVars, adbaseVars, coreVars, moveVars, pathVars, walkVars,
    delegateVars, membersVars, groupsVars, searchVars>>
exceptQuery ==
  <<component, timeVars, flagVars, codecVars, excVars, credVars, threadVars,
    factoryVars, openVars, adbaseVars, coreVars, moveVars, pathVars, walkVars,
    delegateVars, membersVars, groupsVars, searchVars>>
exceptAdbase ==
  <<component, timeVars, flagVars, codecVars, excVars, credVars, threadVars,
    factoryVars, openVars, queryVars, coreVars, moveVars, pathVars, walkVars,
    delegateVars, membersVars, groupsVars, searchVars>>
exceptCore ==
  <<component, timeVars, flagVars, codecVars, excVars, credVars, threadVars,
    factoryVars, openVars, queryVars, adbaseVars, moveVars, pathVars, walkVars,
    delegateVars, membersVars, groupsVars, searchVars>>
exceptMove ==
  <<component, timeVars, flagVars, codecVars, excVars, credVars, threadVars,
    factoryVars, openVars, queryVars, adbaseVars, coreVars, pathVars, walkVars,
    delegateVars, membersVars, groupsVars, searchVars>>
exceptPath ==
  <<component, timeVars, flagVars, codecVars, excVars, credVars, threadVars,
    factoryVars, openVars, queryVars, adbaseVars, coreVars, moveVars, walkVars,
    delegateVars, membersVars, groupsVars, searchVars>>
exceptWalk ==
  <<component, timeVars, flagVars, codecVars, excVars, credVars, threadVars,
    factoryVars, openVars, queryVars, adbaseVars, coreVars, moveVars, pathVars,
    delegateVars, membersVars, groupsVars, searchVars>>
exceptDelegate ==
  <<component, timeVars, flagVars, codecVars, excVars, credVars, threadVars,
    factoryVars, openVars, queryVars, adbaseVars, coreVars, moveVars, pathVars,
    walkVars, membersVars, groupsVars, searchVars>>
exceptMembers ==
  <<component, timeVars, flagVars, codecVars, excVars, credVars, threadVars,
    factoryVars, openVars, queryVars, adbaseVars, coreVars, moveVars, pathVars,
    walkVars, delegateVars, groupsVars, searchVars>>
exceptGroups ==
  <<component, timeVars, flagVars, codecVars, excVars, credVars, threadVars,
    factoryVars, openVars, queryVars, adbaseVars, coreVars, moveVars, pathVars,
    walkVars, delegateVars, membersVars, searchVars>>
exceptSearch ==
  <<component, timeVars, flagVars, codecVars, excVars, credVars, threadVars,
    factoryVars, openVars, queryVars, adbaseVars, coreVars, moveVars, pathVars,
    walkVars, delegateVars, membersVars, groupsVars>>

-----------------------------------------------------------------------------
(* Python values *)

None == [t |-> "none", v |-> 0]
Unset == [t |-> "unset", v |-> 0]
Raise(exc) == [t |-> "raise", v |-> exc]
PyInt(n) == [t |-> "int", v |-> n]
Long(d) == [t |-> "long", v |-> d]
Bytes(s) == [t |-> "bytes", v |-> s]
Str(s) == [t |-> "str", v |-> s]
NameSet(s) == [t |-> "set", v |-> s]
List(s) == [t |-> "list", v |-> s]
Datetime(us) == [t |-> "datetime", v |-> us]
LargeInteger(hi, lo) == [t |-> "ularge", v |-> [HighPart |-> hi, LowPart |-> lo]]

\* Python's == on two values: values of different types are unequal
PyEq(a, b) == a.t = b.t /\ a.v = b.v

IsRaise(x) == x.t = "raise"

-----------------------------------------------------------------------------
(* 32-bit and 64-bit integer arithmetic *)

\* a signed 32-bit integer as two base-65536 halves, the upper one signed
Word(x) == [h |-> x \div 65536, l |-> x % 65536]

\* struct.unpack ("L", struct.pack ("l", signed)): the same 32 bits read as
\* an unsigned number, whose upper half is therefore 0..65535
signed_to_unsigned(signed) == [h |-> (signed \div 65536) % 65536, l |-> signed % 65536]

\* a Python integer literal 0xHHHHLLLL, too wide for a signed 32-bit integer
Hex32(h, l) == [h |-> h, l |-> l]

\* (x & 0x80000000L and -2*0x40000000 or 0) + int (x & 0x7fffffff), on the
\* halves of x: bit 31 is the top bit of the upper half
i32(x) ==
  (IF (x.h % 65536) >= 32768 THEN (-2) * 1073741824 ELSE 0)
    + ((x.h % 32768) * 65536 + x.l)

RECURSIVE Pow2(_)
Pow2(k) == IF k = 0 THEN 1 ELSE 2 * Pow2(k - 1)

\* bit k (0..31) of a signed 32-bit integer in two's complement
Bit(x, k) ==
  IF k = 31 THEN (IF x < 0 THEN 1 ELSE 0)
  ELSE ((IF x < 0 THEN (x + 2147483647) + 1 ELSE x) \div Pow2(k)) % 2

\* the truth value of a & b
BitAnd(a, b) == \E k \in 0..31 : Bit(a, k) = 1 /\ Bit(b, k) = 1

\* carry-normalise four base-65536 digits (the top digit keeps the sign)
Norm4(a3, a2, a1, a0) ==
  LET n0 == a0 % 65536
      b1 == a1 + (a0 \div 65536)
      n1 == b1 % 65536
      b2 == a2 + (b1 \div 65536)
      n2 == b2 % 65536
      n3 == a3 + (b2 \div 65536)
  IN  <<n3, n2, n1, n0>>

\* (hi << 32) + lo for two 32-bit words
ShiftAdd(hi, lo) == Norm4(hi.h, hi.l, lo.h, lo.l)

\* floor division of a four-digit number by a small positive integer
DivSmall(d, k) ==
  LET q3 == d[1] \div k
      r3 == d[1] % k
      q2 == (r3 * 65536 + d[2]) \div k
      r2 == (r3 * 65536 + d[2]) % k
      q1 == (r2 * 65536 + d[3]) \div k
      r1 == (r2 * 65536 + d[3]) % k
      q0 == (r1 * 65536 + d[4]) \div k
  IN  <<q3, q2, q1, q0>>

\* product of a four-digit number and a small positive integer
MulSmall(d, k) == Norm4(d[1] * k, d[2] * k, d[3] * k, d[4] * k)

\* a <= b on four-digit numbers
LongLeq(a, b) ==
  \/ a[1] < b[1]
  \/ a[1] = b[1] /\ a[2] < b[2]
  \/ a[1] = b[1] /\ a[2] = b[2] /\ a[3] < b[3]
  \/ a[1] = b[1] /\ a[2] = b[2] /\ a[3] = b[3] /\ a[4] <= b[4]

-----------------------------------------------------------------------------
(* Timestamps: microseconds relative to BASE_TIME = 1601-01-01 00:00:00 *)

\* datetime.max (9999-12-31 23:59:59.999999) and datetime.min (0001-01-01)
\* as microseconds from BASE_TIME: 265046774399999999 and -50491123200000000
DATETIME_MAX == <<941, 41635, 5369, 40959>>
DATETIME_MIN == <<-180, 40599, 18778, 32768>>

\* BASE_TIME + datetime.timedelta (microseconds=us)
BaseTimePlus(us) ==
  IF LongLeq(DATETIME_MIN, us) /\ LongLeq(us, DATETIME_MAX)
  THEN Datetime(us)
  ELSE Raise("OverflowError")

\* active_directory.py: both parts are read as unsigned; only struct.error
\* is caught, and no signed 32-bit part makes struct.pack raise
ad_time_to_datetime(ad_time) ==
  LET hi == signed_to_unsigned(ad_time.HighPart)
      lo == signed_to_unsigned(ad_time.LowPart)
      ns100 == ShiftAdd(hi, lo)
  IN  BaseTimePlus(DivSmall(ns100, 10))

\* active_directory/converters.py: both parts go through i32 and stay signed
converters_ad_time_to_datetime(ad_time) ==
  LET hi == i32(Word(ad_time.HighPart))
      lo == i32(Word(ad_time.LowPart))
      ns100 == ShiftAdd(Word(hi), Word(lo))
  IN  BaseTimePlus(DivSmall(ns100, 10))

\* kernel32.FileTimeToSystemTime on FILETIME (LowPart, HighPart): fails on a
\* value of 0x8000000000000000 or more, else gives the time to the millisecond
FileTimeToSystemTime(filetime) ==
  IF filetime[1] >= 32768
  THEN [ok |-> FALSE, ms |-> <<0, 0, 0, 0>>]
  ELSE [ok |-> TRUE, ms |-> DivSmall(filetime, 10000)]

\* active_directory2/utils.py: datetime.datetime (wYear, ...) raises
\* ValueError for a year after 9999
file_time_to_system_time(ularge) ==
  LET filetime == ShiftAdd(signed_to_unsigned(ularge.HighPart),
                           signed_to_unsigned(ularge.LowPart))
      systemtime == FileTimeToSystemTime(filetime)
      us == MulSmall(systemtime.ms, 1000)
  IN  IF ~systemtime.ok THEN Raise("WindowsError")
      ELSE IF LongLeq(us, DATETIME_MAX) THEN Datetime(us)
      ELSE Raise("ValueError")

\* the 32-bit parts the timestamp decoders are tried on
PartValues ==
  {0, 1, 9, 10, 65536, 30450355, 2147483647, -1, -2, -65536, (-2147483647) - 1}

AdTimes == {[HighPart |-> hi, LowPart |-> lo] : hi \in PartValues, lo \in PartValues}

CallAdTimeToDatetime ==
  /\ component = "time"
  /\ \E ad_time \in AdTimes :
       /\ t_fn' = "ad_time_to_datetime"
       /\ t_ad_time' = ad_time
       /\ t_result' = ad_time_to_datetime(ad_time)
  /\ UNCHANGED exceptTime

CallConvertersAdTimeToDatetime ==
  /\ component = "time"
  /\ \E ad_time \in AdTimes :
       /\ t_fn' = "converters.ad_time_to_datetime"
       /\ t_ad_time' = ad_time
       /\ t_result' = converters_ad_time_to_datetime(ad_time)
  /\ UNCHANGED exceptTime

CallFileTimeToSystemTime ==
  /\ component = "time"
  /\ \E ad_time \in AdTimes :
       /\ t_fn' = "file_time_to_system_time"
       /\ t_ad_time' = ad_time
       /\ t_result' = file_time_to_system_time(ad_time)
  /\ UNCHANGED exceptTime

-----------------------------------------------------------------------------
(* Enumerations and the bit-flag converter *)

\* GROUP_TYPES = Enum (...): keyword -> literal
GROUP_TYPES ==
  ("GLOBAL" :> Hex32(0, 2)) @@ ("DOMAIN_LOCAL" :> Hex32(0, 4))
    @@ ("LOCAL" :> Hex32(0, 4)) @@ ("UNIVERSAL" :> Hex32(0, 8))
    @@ ("SECURITY_ENABLED" :> Hex32(32768, 0))

\* USER_ACCOUNT_CONTROL = Enum (...): keyword -> literal
USER_ACCOUNT_CONTROL ==
  [SCRIPT |-> Hex32(0, 1), ACCOUNTDISABLE |-> Hex32(0, 2),
   HOMEDIR_REQUIRED |-> Hex32(0, 8), LOCKOUT |-> Hex32(0, 16),
   PASSWD_NOTREQD |-> Hex32(0, 32), PASSWD_CANT_CHANGE |-> Hex32(0, 64),
   ENCRYPTED_TEXT_PASSWORD_ALLOWED |-> Hex32(0, 128),
   TEMP_DUPLICATE_ACCOUNT |-> Hex32(0, 256), NORMAL_ACCOUNT |-> Hex32(0, 512),
   INTERDOMAIN_TRUST_ACCOUNT |-> Hex32(0, 2048),
   WORKSTATION_TRUST_ACCOUNT |-> Hex32(0, 4096),
   SERVER_TRUST_ACCOUNT |-> Hex32(0, 8192), DONT_EXPIRE_PASSWD |-> Hex32(1, 0),
   MNS_LOGON_ACCOUNT |-> Hex32(2, 0), SMARTCARD_REQUIRED |-> Hex32(4, 0),
   TRUSTED_FOR_DELEGATION |-> Hex32(8, 0), NOT_DELEGATED |-> Hex32(16, 0),
   USE_DES_KEY_ONLY |-> Hex32(32, 0), DONT_REQUIRE_PREAUTH |-> Hex32(64, 0),
   PASSWORD_EXPIRED |-> Hex32(128, 0),
   TRUSTED_TO_AUTHENTICATE_FOR_DELEGATION |-> Hex32(256, 0)]

\* the orders in which kwargs.items () may hand over the keywords of a call
\* (a Python 2 dict iterates in hash order): every permutation
KwargsOrders(kwargs) ==
  LET names == DOMAIN kwargs
      n == Cardinality(names)
  IN  {o \in [1..n -> names] : \A i, j \in 1..n : i # j => o[i] # o[j]}

\* the keywords of USER_ACCOUNT_CONTROL by value; no two share a value
UacOrder ==
  <<"SCRIPT", "ACCOUNTDISABLE", "HOMEDIR_REQUIRED", "LOCKOUT", "PASSWD_NOTREQD",
    "PASSWD_CANT_CHANGE", "ENCRYPTED_TEXT_PASSWORD_ALLOWED",
    "TEMP_DUPLICATE_ACCOUNT", "NORMAL_ACCOUNT", "INTERDOMAIN_TRUST_ACCOUNT",
    "WORKSTATION_TRUST_ACCOUNT", "SERVER_TRUST_ACCOUNT", "DONT_EXPIRE_PASSWD",
    "MNS_LOGON_ACCOUNT", "SMARTCARD_REQUIRED", "TRUSTED_FOR_DELEGATION",
    "NOT_DELEGATED", "USE_DES_KEY_ONLY", "DONT_REQUIRE_PREAUTH",
    "PASSWORD_EXPIRED", "TRUSTED_TO_AUTHENTICATE_FOR_DELEGATION">>

\* Enum.__init__: the loop over kwargs.items (), a later keyword overwriting
\* the _number_map entry of an earlier one with the same value
RECURSIVE EnumInit(_, _, _)
EnumInit(kwargs, order, i) ==
  IF i = 0 THEN [name_map |-> [k \in {} |-> 0], number_map |-> [n \in {} |-> ""]]
  ELSE LET prev == EnumInit(kwargs, order, i - 1)
           k == order[i]
           v == i32(kwargs[k])
       IN  [name_map |-> [x \in DOMAIN prev.name_map \cup {k} |->
                            IF x = k THEN v ELSE prev.name_map[x]],
            number_map |-> [n \in DOMAIN prev.number_map \cup {v} |->
                            IF n = v THEN k ELSE prev.number_map[n]]]

Enum(kwargs, order) == EnumInit(kwargs, order, Len(order))

\* Enum.item_numbers: the (number, name) pairs of _number_map
item_numbers(enum) == {<<n, enum.number_map[n]>> : n \in DOMAIN enum.number_map}

\* convert_to_flags (enum) (item)
convert_to_flags(enum, item) ==
  IF item.t = "none" THEN None
  ELSE LET i == i32(Word(item.v))
       IN  NameSet({p[2] : p \in {q \in item_numbers(enum) : BitAnd(i, q[1])}})

\* the integers the flags converters are tried on
FlagItems ==
  {0, 1, 2, 4, 6, 8, 12, 512, 514, 66048, -1, (-2147483647) + 1, (-2147483647) + 3}

CallConvertToFlags ==
  /\ component = "flags"
  /\ \E name \in DOMAIN f_enums, item \in {PyInt(n) : n \in FlagItems} \cup {None} :
       /\ f_enum' = name
       /\ f_item' = item
       /\ f_result' = convert_to_flags(f_enums[name], item)
  /\ UNCHANGED <<f_enums, exceptFlags>>

-----------------------------------------------------------------------------
(* Strings and the hexadecimal converters *)

HexDigits == <<"0", "1", "2", "3", "4", "5", "6", "7", "8", "9", "a", "b", "c", "d", "e", "f">>

\* ord (c) of the characters the converters can produce
CharCode ==
  [c \in {"0", "1", "2", "3", "4", "5", "6", "7", "8", "9", "a", "b", "c", "d",
          "e", "f", "{", "}", "-", "<", ">"} |->
     CASE c = "{" -> 123 [] c = "}" -> 125 [] c = "-" -> 45 [] c = "<" -> 60
       [] c = ">" -> 62
       [] c \in {"a", "b", "c", "d", "e", "f"} ->
            87 + (CHOOSE i \in 11..16 : HexDigits[i] = c)
       [] OTHER -> 47 + (CHOOSE i \in 1..10 : HexDigits[i] = c)]

\* ord (i) of one element of a byte string or of a text string
Ord(item, i) == IF item.t = "bytes" THEN item.v[i] ELSE CharCode[item.v[i]]

\* u"%02x" % n
Format02x(n) ==
  IF n < 16 THEN <<"0", HexDigits[n + 1]>>
  ELSE <<HexDigits[(n \div 16) + 1], HexDigits[(n % 16) + 1]>>

\* u"%x" % n
FormatX(n) ==
  IF n < 16 THEN <<HexDigits[n + 1]>>
  ELSE <<HexDigits[(n \div 16) + 1], HexDigits[(n % 16) + 1]>>

RECURSIVE Join02x(_, _)
Join02x(item, i) ==
  IF i = 0 THEN <<>> ELSE Join02x(item, i - 1) \o Format02x(Ord(item, i))

RECURSIVE JoinX(_, _)
JoinX(item, i) ==
  IF i = 0 THEN <<>> ELSE JoinX(item, i - 1) \o FormatX(Ord(item, i))

\* s[a:b] and s[a:]
Slice(s, a, b) == SubSeq(s, a + 1, IF b < Len(s) THEN b ELSE Len(s))
SliceFrom(s, a) == SubSeq(s, a + 1, Len(s))

IsString(item) == item.t \in {"bytes", "str"}

\* u"{%s-%s-%s-%s-%s}" % (guid[:8], guid[8:12], guid[12:16], guid[16:20], guid[20:])
GuidFormat(guid) ==
  <<"{">> \o Slice(guid, 0, 8) \o <<"-">> \o Slice(guid, 8, 12) \o <<"-">>
    \o Slice(guid, 12, 16) \o <<"-">> \o Slice(guid, 16, 20) \o <<"-">>
    \o SliceFrom(guid, 20) \o <<"}">>

\* active_directory.py: convert_to_hex, convert_to_guid
convert_to_hex(item) ==
  IF item.t = "none" THEN None
  ELSE IF ~IsString(item) THEN Raise("TypeError")
  ELSE Str(Join02x(item, Len(item.v)))

convert_to_guid(item) ==
  IF item.t = "none" THEN None
  ELSE LET guid == convert_to_hex(item)
       IN  IF IsRaise(guid) THEN guid ELSE Str(GuidFormat(guid.v))

\* active_directory.py: convert_from_hex, convert_from_guid
convert_from_hex(item) ==
  IF item.t = "none" THEN None
  ELSE IF ~IsString(item) THEN Raise("TypeError")
  ELSE Str(JoinX(item, Len(item.v)))

convert_from_guid(item) ==
  IF item.t = "none" THEN None
  ELSE LET guid == convert_from_hex(item)
       IN  IF IsRaise(guid) THEN guid ELSE Str(GuidFormat(guid.v))

\* active_directory2/types.py: convert_to_hex wraps the digits in <...>
types_convert_to_hex(item) ==
  IF item.t = "none" THEN None
  ELSE IF ~IsString(item) THEN Raise("TypeError")
  ELSE Str(<<"<">> \o Join02x(item, Len(item.v)) \o <<">">>)

types_convert_to_guid(item) ==
  IF item.t = "none" THEN None
  ELSE LET guid == types_convert_to_hex(item)
       IN  IF IsRaise(guid) THEN guid ELSE Str(GuidFormat(guid.v))

\* active_directory2/types.py: octet_to_hex, hex_to_octet
octet_to_hex(octet) ==
  IF octet.t = "none" THEN None
  ELSE IF ~IsString(octet) THEN Raise("TypeError")
  ELSE Str(JoinX(octet, Len(octet.v)))

hex_to_octet(hex) == Raise("NotImplementedError")

-----------------------------------------------------------------------------
(* The remaining converters of active_directory2/types.py *)

\* win32security.SID (octets): a PySID holding the octets
SID(item) == IF item.t = "bytes" THEN [t |-> "sid", v |-> item.v] ELSE Raise("TypeError")

no_conversion(value) == value

ularge_to_datetime(ularge) ==
  IF ularge.t # "ularge" THEN Raise("AttributeError")
  ELSE file_time_to_system_time(ularge.v)

datetime_to_ularge(datetime) == Raise("NotImplementedError")

types_convert_to_datetime(item) ==
  IF item.t = "none" THEN None ELSE ularge_to_datetime(item)

\* (ularge.HighPart << 32) + ularge.LowPart on the signed parts
ularge_to_long(ularge) ==
  IF ularge.t # "ularge" THEN Raise("AttributeError")
  ELSE Long(ShiftAdd(Word(ularge.v.HighPart), Word(ularge.v.LowPart)))

long_to_ularge(long) == Raise("NotImplementedError")

octet_to_sid(octet) == IF octet.t = "none" THEN None ELSE SID(octet)

sid_to_octet(sid) == Raise("NotImplementedError")

convert_to_sid(item) == IF item.t = "none" THEN None ELSE SID(item)

RECURSIVE JoinBreadcrumbs(_, _)
JoinBreadcrumbs(items, i) ==
  IF i = 0 THEN <<>>
  ELSE IF i = 1 THEN items[1].v
  ELSE JoinBreadcrumbs(items, i - 1) \o <<" ", ">", " ">> \o items[i].v

\* u" > ".join (item)
convert_to_breadcrumbs(item) ==
  IF item.t # "list" THEN Raise("TypeError")
  ELSE Str(JoinBreadcrumbs(item.v, Len(item.v)))

\* a converter of active_directory2/types.py, by name, applied to item
TypesApply(fn, item) ==
  CASE fn = "no_conversion" -> no_conversion(item)
    [] fn = "convert_to_datetime" -> types_convert_to_datetime(item)
    [] fn = "ularge_to_datetime" -> ularge_to_datetime(item)
    [] fn = "datetime_to_ularge" -> datetime_to_ularge(item)
    [] fn = "ularge_to_long" -> ularge_to_long(item)
    [] fn = "long_to_ularge" -> long_to_ularge(item)
    [] fn = "octet_to_sid" -> octet_to_sid(item)
    [] fn = "sid_to_octet" -> sid_to_octet(item)
    [] fn = "octet_to_hex" -> octet_to_hex(item)
    [] fn = "hex_to_octet" -> hex_to_octet(item)
    [] fn = "convert_to_sid" -> convert_to_sid(item)
    [] fn = "convert_to_guid" -> types_convert_to_guid(item)
    [] fn = "convert_to_hex" -> types_convert_to_hex(item)
    [] fn = "convert_to_breadcrumbs" -> convert_to_breadcrumbs(item)
    [] fn = "convert_to_flags (GROUP_TYPES)" ->
         convert_to_flags(f_enums["GROUP_TYPES"], item)
    [] fn = "convert_to_flags (USER_ACCOUNT_CONTROL)" ->
         convert_to_flags(f_enums["USER_ACCOUNT_CONTROL"], item)
    [] OTHER -> item

\* register_converters: a [from_ad, to_ad] pair per attribute name, an
\* argument of None leaving that side as it was
register_converters(converters, attribute_name, from_ad, to_ad) ==
  LET from_to == IF attribute_name \in DOMAIN converters
                 THEN converters[attribute_name] ELSE <<"None", "None">>
      with_from == IF from_ad # "None" THEN <<from_ad, from_to[2]>> ELSE from_to
      with_to == IF to_ad # "None" THEN <<with_from[1], to_ad>> ELSE with_from
  IN  [n \in DOMAIN converters \cup {attribute_name} |->
         IF n = attribute_name THEN with_to ELSE converters[n]]

\* register_type_converters: the same, per attribute syntax
register_type_converters(type_converters, attribute_type, from_ad, to_ad) ==
  LET from_to == IF attribute_type \in DOMAIN type_converters
                 THEN type_converters[attribute_type] ELSE <<"None", "None">>
      with_from == IF from_ad # "None" THEN <<from_ad, from_to[2]>> ELSE from_to
      with_to == IF to_ad # "None" THEN <<with_from[1], to_ad>> ELSE with_from
  IN  [n \in DOMAIN type_converters \cup {attribute_type} |->
         IF n = attribute_type THEN with_to ELSE type_converters[n]]

\* the register_type_converters calls made at import
TypeRegistrations ==
  <<<<"2.5.5.11", "ularge_to_datetime", "datetime_to_ularge">>,
    <<"2.5.5.16", "ularge_to_long", "long_to_ularge">>,
    <<"2.5.5.17", "octet_to_sid", "sid_to_octet">>,
    <<"2.5.5.10", "octet_to_hex", "hex_to_octet">>>>

\* the register_converters calls made at import, for the attributes modelled
NameRegistrations ==
  <<<<"distinguishedName", "no_conversion", "no_conversion">>,
    <<"accountExpires", "convert_to_datetime", "None">>,
    <<"dSASignature", "convert_to_hex", "None">>,
    <<"groupType", "convert_to_flags (GROUP_TYPES)", "None">>,
    <<"lastLogon", "convert_to_datetime", "None">>,
    <<"objectClass", "convert_to_breadcrumbs", "None">>,
    <<"objectGUID", "convert_to_guid", "None">>,
    <<"objectSid", "convert_to_sid", "None">>,
    <<"userAccountControl", "convert_to_flags (USER_ACCOUNT_CONTROL)", "None">>>>

RECURSIVE types_type_converters_upto(_)
types_type_converters_upto(i) ==
  IF i = 0 THEN [n \in {} |-> <<"None", "None">>]
  ELSE register_type_converters(types_type_converters_upto(i - 1),
         TypeRegistrations[i][1], TypeRegistrations[i][2], TypeRegistrations[i][3])

RECURSIVE types_converters_upto(_)
types_converters_upto(i) ==
  IF i = 0 THEN [n \in {} |-> <<"None", "None">>]
  ELSE register_converters(types_converters_upto(i - 1),
         NameRegistrations[i][1], NameRegistrations[i][2], NameRegistrations[i][3])

\* _type_converters and _converters once the module is imported
types_type_converters == types_type_converters_upto(Len(TypeRegistrations))
types_converters == types_converters_upto(Len(NameRegistrations))

\* _converters.get (name, (None, None))
get_converters(name) ==
  IF name \in DOMAIN types_converters THEN types_converters[name] ELSE <<"None", "None">>

\* _type_converters.get (attribute_syntax, (None, None))
get_type_converters(attribute_syntax) ==
  IF attribute_syntax \in DOMAIN types_type_converters
  THEN types_type_converters[attribute_syntax] ELSE <<"None", "None">>

-----------------------------------------------------------------------------
(* Attribute reads through the converter tables *)

PyTime(seconds) == [t |-> "pytime", v |-> seconds]

\* attributeSyntax of the schema's attributes
AttributeSyntax ==
  [distinguishedName |-> "2.5.5.1", displayName |-> "2.5.5.12",
   accountExpires |-> "2.5.5.16", lastLogon |-> "2.5.5.16",
   uSNChanged |-> "2.5.5.16", createTimeStamp |-> "2.5.5.11",
   dSASignature |-> "2.5.5.10", objectGUID |-> "2.5.5.10",
   attributeSecurityGUID |-> "2.5.5.10", objectSid |-> "2.5.5.17",
   objectClass |-> "2.5.5.2", groupType |-> "2.5.5.9",
   userAccountControl |-> "2.5.5.9"]

AttributeNames == DOMAIN AttributeSyntax

\* byte strings a directory object may hold: two octets, and 16-octet GUIDs
OctetValues ==
  {Bytes(<<1, 171>>),
   Bytes(<<0, 1, 2, 3, 4, 5, 6, 7, 8, 9, 10, 11, 12, 13, 14, 15>>),
   Bytes(<<239, 205, 171, 137, 103, 69, 35, 16, 254, 220, 186, 152, 118, 84, 50, 17>>)}

\* the well-formed values of an attribute, and None for one that is not set
RawValues(name) ==
  {None} \cup
  CASE AttributeSyntax[name] = "2.5.5.16" ->
         {LargeInteger(hi, lo) : hi \in {0, 30450355, 2147483647}, lo \in {0, 1281191551, -1}}
    [] AttributeSyntax[name] \in {"2.5.5.10", "2.5.5.17"} -> OctetValues
    [] AttributeSyntax[name] = "2.5.5.11" -> {PyTime(0)}
    [] AttributeSyntax[name] = "2.5.5.9" -> {PyInt(n) : n \in {2, 4, 514}}
    [] AttributeSyntax[name] = "2.5.5.2" ->
         {List(<<Str(<<"t", "o", "p">>), Str(<<"u", "s", "e", "r">>)>>)}
    [] OTHER -> {Str(<<"c", "n">>)}

\* active_directory2/adobject.py, ADObject.__getattr__: the by-name converter,
\* else the one for the attribute's syntax, else the value as it is
ADObject__getattr__ ==
  /\ component = "codec"
  /\ \E name \in AttributeNames :
       \E value \in RawValues(name) :
         LET by_name == get_converters(name)[1]
             convert_from == IF by_name = "None"
                             THEN get_type_converters(AttributeSyntax[name])[1]
                             ELSE by_name
         IN  /\ c_lookup' = "ADObject.__getattr__"
             /\ c_name' = name
             /\ c_had_name' = (by_name # "None")
             /\ c_raw' = value
             /\ c_converter' = convert_from
             /\ c_decoded' = IF convert_from # "None"
                             THEN TypesApply(convert_from, value) ELSE value
             /\ c_encoded' = Unset
  /\ UNCHANGED <<c_converters, exceptCodec>>

\* the to-AD converter registered beside the from-AD converter that
\* ADObject.__getattr__ chose
PairedToAd(name, had_name) ==
  IF had_name THEN get_converters(name)[2]
  ELSE get_type_converters(AttributeSyntax[name])[2]

\* the to-AD side of a registered pair, applied to the value just decoded
ApplyToAd ==
  /\ component = "codec"
  /\ c_lookup = "ADObject.__getattr__"
  /\ c_converter # "None"
  /\ c_encoded = Unset
  /\ ~IsRaise(c_decoded)
  /\ PairedToAd(c_name, c_had_name) # "None"
  /\ c_encoded' = TypesApply(PairedToAd(c_name, c_had_name), c_decoded)
  /\ UNCHANGED <<c_converters, c_lookup, c_name, c_had_name, c_raw, c_converter,
                 c_decoded, exceptCodec>>

-----------------------------------------------------------------------------
(* active_directory.py: _PROPERTY_MAP, _PROPERTY_MAP_IN and attribute reads *)

convert_to_datetime(item) ==
  IF item.t = "none" THEN None
  ELSE IF item.t # "ularge" THEN Raise("AttributeError")
  ELSE ad_time_to_datetime(item.v)

\* pytime_to_datetime (item) raises for anything int () does not take, and the
\* bare except then hands item to ad_time_to_datetime
convert_from_datetime(item) ==
  IF item.t = "none" THEN None
  ELSE IF item.t = "pytime" THEN Datetime(<<0, 0, 0, 0>>)
  ELSE IF item.t = "ularge" THEN ad_time_to_datetime(item.v)
  ELSE Raise("AttributeError")

PROPERTY_MAP ==
  [accountExpires |-> "convert_to_datetime", dSASignature |-> "convert_to_hex",
   lastLogon |-> "convert_to_datetime", objectGUID |-> "convert_to_guid"]

PROPERTY_MAP_IN ==
  [accountExpires |-> "convert_from_datetime", dSASignature |-> "convert_from_hex",
   lastLogon |-> "convert_from_datetime", objectGUID |-> "convert_from_guid",
   uSNChanged |-> "convert_from_datetime"]

\* a converter of active_directory.py, by name, applied to item
PropertyApply(fn, item) ==
  CASE fn = "convert_to_datetime" -> convert_to_datetime(item)
    [] fn = "convert_to_hex" -> convert_to_hex(item)
    [] fn = "convert_to_guid" -> convert_to_guid(item)
    [] fn = "convert_from_datetime" -> convert_from_datetime(item)
    [] fn = "convert_from_hex" -> convert_from_hex(item)
    [] fn = "convert_from_guid" -> convert_from_guid(item)
    [] OTHER -> item

\* _AD_object.__getattr__: self._property_map.get (name), applied if there
AD_object__getattr__ ==
  /\ component = "codec"
  /\ \E name \in AttributeNames :
       \E attr \in RawValues(name) :
         LET converter == IF name \in DOMAIN PROPERTY_MAP
                          THEN PROPERTY_MAP[name] ELSE "None"
         IN  /\ c_lookup' = "_AD_object.__getattr__"
             /\ c_name' = name
             /\ c_had_name' = (converter # "None")
             /\ c_raw' = attr
             /\ c_converter' = converter
             /\ c_decoded' = IF converter # "None"
                             THEN PropertyApply(converter, attr) ELSE attr
             /\ c_encoded' = Unset
  /\ UNCHANGED <<c_converters, exceptCodec>>

\* the _PROPERTY_MAP_IN converter of the attribute, applied to the value just
\* decoded by its _PROPERTY_MAP converter
ApplyPropertyMapIn ==
  /\ component = "codec"
  /\ c_lookup = "_AD_object.__getattr__"
  /\ c_converter # "None"
  /\ c_encoded = Unset
  /\ ~IsRaise(c_decoded)
  /\ c_name \in DOMAIN PROPERTY_MAP_IN
  /\ c_encoded' = PropertyApply(PROPERTY_MAP_IN[c_name], c_decoded)
  /\ UNCHANGED <<c_converters, c_lookup, c_name, c_had_name, c_raw, c_converter,
                 c_decoded, exceptCodec>>

-----------------------------------------------------------------------------
(* active_directory/types.py: the _converters registry and get_converter *)

TYPE_CONVERTERS ==
  ("2.5.5.11" :> "ad_time_to_datetime") @@ ("2.5.5.16" :> "convert_to_long")
    @@ ("2.5.5.17" :> "convert_to_sid") @@ ("2.5.5.10" :> "convert_to_hex")

register_converter(converters, attribute_name, from_ad, to_ad) ==
  LET from_to == IF attribute_name \in DOMAIN converters
                 THEN converters[attribute_name] ELSE <<"None", "None">>
      with_from == IF from_ad # "None" THEN <<from_ad, from_to[2]>> ELSE from_to
      with_to == IF to_ad # "None" THEN <<with_from[1], to_ad>> ELSE with_from
  IN  [n \in DOMAIN converters \cup {attribute_name} |->
         IF n = attribute_name THEN with_to ELSE converters[n]]

\* the attributes the registry is exercised on, and those of them whose
\* name.endswith ("GUID")
RegistryNames == {"uSNChanged", "displayName", "attributeSecurityGUID"}
EndsWithGUID == {"objectGUID", "attributeSecurityGUID"}

\* a caller registers converters for an attribute
CallRegisterConverter ==
  /\ component = "registry"
  /\ \E name \in RegistryNames, from_ad \in {"None", "convert_to_datetime"},
        to_ad \in {"None", "convert_from_datetime"} :
       c_converters' = register_converter(c_converters, name, from_ad, to_ad)
  /\ UNCHANGED <<c_lookup, c_name, c_had_name, c_raw, c_converter, c_decoded,
                 c_encoded, exceptCodec>>

\* get_converter (name); obj is always None, the schema lookup being
\* commented out
get_converter ==
  /\ component = "registry"
  /\ \E name \in RegistryNames :
       LET obj == None
           registered ==
             IF name \notin DOMAIN c_converters
             THEN IF obj.t # "none" /\ AttributeSyntax[name] \in DOMAIN TYPE_CONVERTERS
                  THEN register_converter(c_converters, name,
                                          TYPE_CONVERTERS[AttributeSyntax[name]], "None")
                  ELSE IF name \in EndsWithGUID
                  THEN register_converter(c_converters, name, "convert_to_guid", "None")
                  ELSE c_converters
             ELSE c_converters
           from_to == IF name \in DOMAIN registered
                      THEN registered[name] ELSE <<"None", "None">>
       IN  /\ c_converters' = registered
           /\ c_lookup' = "get_converter"
           /\ c_name' = name
           /\ c_had_name' = (name \in DOMAIN c_converters /\ c_converters[name][1] # "None")
           /\ c_raw' = None
           /\ c_converter' = IF from_to[1] # "None" THEN from_to[1] ELSE "identity"
           /\ c_decoded' = Unset
           /\ c_encoded' = Unset
  /\ UNCHANGED exceptCodec

-----------------------------------------------------------------------------
(* active_directory/exc.py: the translation of native errors *)

ERROR_DS_NO_SUCH_OBJECT == Hex32(32775, 8240)
ERROR_OBJECT_ALREADY_EXISTS == Hex32(32775, 5010)
ERROR_MEMBER_NOT_IN_ALIAS == Hex32(32775, 1377)
ERROR_MEMBER_IN_ALIAS == Hex32(32775, 1378)
E_ADS_BAD_PATHNAME == Hex32(32768, 20480)
ERROR_NOT_IMPLEMENTED == Hex32(32768, 16385)
E_ADS_PROPERTY_NOT_FOUND == Hex32(32768, 20493)
E_ADS_PROPERTY_NOT_SUPPORTED == Hex32(32768, 20486)
E_ADS_PROPERTY_INVALID == Hex32(32768, 20487)

WINERROR_MAP ==
  (ERROR_MEMBER_NOT_IN_ALIAS :> "MemberNotInGroupError")
    @@ (ERROR_MEMBER_IN_ALIAS :> "MemberAlreadyInGroupError")
    @@ (E_ADS_BAD_PATHNAME :> "BadPathnameError")
    @@ (ERROR_NOT_IMPLEMENTED :> "NotImplementedError")
    @@ (E_ADS_PROPERTY_NOT_FOUND :> "AttributeError")
    @@ (E_ADS_PROPERTY_NOT_SUPPORTED :> "AttributeError")
    @@ (E_ADS_PROPERTY_INVALID :> "AttributeError")

\* winerror_map.get (key, default); the key None is in no map
MapGet(winerror_map, key, default) ==
  IF key \in DOMAIN winerror_map THEN winerror_map[key] ELSE default

\* the handlers of _wrapped, for the error the wrapped function raised
wrapper(winerror_map, default_exception, err) ==
  CASE err.kind = "com_error" ->
         LET hresult_code == signed_to_unsigned(err.hresult_code)
             scode == IF err.additional_info
                      THEN signed_to_unsigned(err.scode) ELSE Hex32(-1, -1)
         IN  MapGet(winerror_map, hresult_code,
                    MapGet(winerror_map, scode, default_exception))
    [] err.kind = "error" -> MapGet(winerror_map, Word(err.errno), default_exception)
    [] OTHER -> MapGet(winerror_map, Word(err.errno), default_exception)

wrapped(err) == wrapper(WINERROR_MAP, "ActiveDirectoryError", err)

\* the codes of exc.py, E_ACCESSDENIED (0x80070005) and DISP_E_EXCEPTION
\* (0x80020009), as the signed integers pywin32 hands over
KnownCodes ==
  {ERROR_DS_NO_SUCH_OBJECT, ERROR_OBJECT_ALREADY_EXISTS, ERROR_MEMBER_NOT_IN_ALIAS,
   ERROR_MEMBER_IN_ALIAS, E_ADS_BAD_PATHNAME, ERROR_NOT_IMPLEMENTED,
   E_ADS_PROPERTY_NOT_FOUND, E_ADS_PROPERTY_NOT_SUPPORTED, E_ADS_PROPERTY_INVALID}
HResults == {i32(c) : c \in KnownCodes \cup {Hex32(32775, 5), Hex32(32770, 9)}}

\* what a wrapped call can raise: a com_error with or without additional_info,
\* a pywintypes.error, a WindowsError
NativeErrors ==
  {[kind |-> "com_error", hresult_code |-> h, additional_info |-> FALSE,
    scode |-> 0, errno |-> 0] : h \in HResults}
  \cup {[kind |-> "com_error", hresult_code |-> i32(Hex32(32770, 9)),
         additional_info |-> TRUE, scode |-> sc, errno |-> 0] : sc \in HResults}
  \cup {[kind |-> k, hresult_code |-> 0, additional_info |-> FALSE, scode |-> 0,
         errno |-> n] : k \in {"error", "WindowsError"}, n \in {2, 5, 1377, 1378}}

\* exc.wrapped (function, ...) where function raises err
CallWrapped ==
  /\ component = "exc"
  /\ \E err \in NativeErrors :
       /\ e_error' = err
       /\ e_raised' = wrapped(err)
  /\ UNCHANGED exceptExc

-----------------------------------------------------------------------------
(* active_directory2/credentials.py: the cache of credentials *)

\* the most with blocks open at once, and the most entries pushed outside them
MaxDepth == 3
MaxPushed == 2

\* the Credentials objects of the program, by username, with their .server;
\* "None" is the server get is asked for when the caller names none
CredentialsServer == [alice |-> "dc1", bob |-> "dc1", carol |-> "dc2"]

Servers == {"dc1", "dc2", "None"}

\* _CredentialsCache.push: self._cache.setdefault (cred.server, []).append (cred)
push(cache, cred) ==
  LET server == CredentialsServer[cred]
  IN  [k \in DOMAIN cache \cup {server} |->
         IF k = server
         THEN Append(IF server \in DOMAIN cache THEN cache[server] ELSE <<>>, cred)
         ELSE cache[k]]

\* a pop that takes the oldest entry of the server, as list.pop (0) would
pop_oldest(cache, server) ==
  [cache EXCEPT ![server] = SubSeq(cache[server], 2, Len(cache[server]))]

\* _CredentialsCache.pop: self._cache[server].pop (), the cache afterwards
pop(cache, server) ==
  [cache EXCEPT ![server] = SubSeq(cache[server], 1, Len(cache[server]) - 1)]

\* _CredentialsCache.get: the cache after self._cache.setdefault (server, [])
getdefault(cache, server) ==
  [k \in DOMAIN cache \cup {server} |-> IF k \in DOMAIN cache THEN cache[k] ELSE <<>>]

\* _CredentialsCache.get: creds[-1], or the default None
get(cache, server) ==
  LET creds == getdefault(cache, server)[server]
  IN  IF creds # <<>> THEN creds[Len(creds)] ELSE "None"

\* cache ().push (cred) outside every with block
CachePush ==
  /\ component \in {"cred", "open"}
  /\ cr_blocks = <<>>
  /\ \E cred \in DOMAIN CredentialsServer :
       /\ Len(getdefault(cr_cache, CredentialsServer[cred])[CredentialsServer[cred]])
            < MaxPushed
       /\ cr_cache' = push(cr_cache, cred)
  /\ cr_last' = "push"
  /\ UNCHANGED <<cr_blocks, cr_baseline, cr_nested, cr_got, exceptCred>>

\* Credentials.__enter__: cache ().push (self)
Credentials__enter__ ==
  /\ component = "cred"
  /\ Len(cr_blocks) < MaxDepth
  /\ \E self \in DOMAIN CredentialsServer :
       /\ cr_cache' = push(cr_cache, self)
       /\ cr_blocks' = Append(cr_blocks, self)
  /\ cr_baseline' = IF cr_blocks = <<>>
                    THEN [server \in Servers |-> get(cr_cache, server)]
                    ELSE cr_baseline
  /\ cr_nested' = IF cr_blocks = <<>> THEN 1
                  ELSE IF Len(cr_blocks) + 1 > cr_nested THEN Len(cr_blocks) + 1
                  ELSE cr_nested
  /\ cr_last' = "enter"
  /\ UNCHANGED <<cr_got, exceptCred>>

\* Credentials.__exit__ of the innermost open block, reached when its body
\* ends or raises: cache ().pop (self.server)
Credentials__exit__ ==
  /\ component = "cred"
  /\ cr_blocks # <<>>
  /\ LET self == cr_blocks[Len(cr_blocks)]
     IN  cr_cache' = pop(cr_cache, CredentialsServer[self])
  /\ cr_blocks' = SubSeq(cr_blocks, 1, Len(cr_blocks) - 1)
  /\ cr_last' = "exit"
  /\ UNCHANGED <<cr_baseline, cr_nested, cr_got, exceptCred>>

\* cache ().get (server)
CacheGet ==
  /\ component = "cred"
  /\ \E server \in Servers :
       /\ cr_got' = [server |-> server, cred |-> get(cr_cache, server)]
       /\ cr_cache' = getdefault(cr_cache, server)
  /\ UNCHANGED <<cr_blocks, cr_baseline, cr_nested, cr_last, exceptCred>>

-----------------------------------------------------------------------------
(* active_directory2/credentials.py: Credentials objects and their factory *)

ANONYMOUS == 0
SIMPLE == 1
PASSTHROUGH == 2

Tuple(s) == [t |-> "tuple", v |-> s]

\* Credentials.__init__ called with the positional arguments args: the new
\* object, told from every other object by ident, or the TypeError Python
\* raises when the arguments do not fit (username, password, server=None,
\* type=SIMPLE)
Credentials__init__(ident, args) ==
  IF Len(args) < 2 \/ Len(args) > 4 THEN Raise("TypeError")
  ELSE LET type == IF Len(args) >= 4 THEN args[4] ELSE PyInt(SIMPLE)
       IN  [t |-> "Credentials",
            v |-> [ident |-> ident,
                   username |-> args[1],
                   password |-> args[2],
                   server |-> IF Len(args) >= 3 THEN args[3] ELSE None,
                   type |-> type,
                   authentication_type |->
                     IF PyEq(type, PyInt(ANONYMOUS)) THEN "NO_AUTHENTICATION"
                     ELSE "SECURE_AUTHENTICATION"]]

Passthrough == Credentials__init__("Passthrough", <<None, None, PyInt(PASSTHROUGH)>>)
Anonymous == Credentials__init__("Anonymous", <<None, None, PyInt(ANONYMOUS)>>)

\* Credentials.__init__ (username, password, type=SIMPLE) of
\* active_directory/credentials.py, which has no server
ad_Credentials__init__(ident, username, password, type) ==
  [t |-> "Credentials",
   v |-> [ident |-> ident, username |-> username, password |-> password,
          server |-> None, type |-> type,
          authentication_type |->
            IF PyEq(type, PyInt(ANONYMOUS)) THEN "NO_AUTHENTICATION"
            ELSE "SECURE_AUTHENTICATION"]]

\* Passthrough and Anonymous of active_directory/credentials.py
ad_Passthrough == ad_Credentials__init__("Passthrough", None, None, PyInt(PASSTHROUGH))
ad_Anonymous == ad_Credentials__init__("Anonymous", None, None, PyInt(ANONYMOUS))

\* what *cred unpacks to: the elements of a tuple, the characters of a
\* string, and a TypeError for a value that is not iterable
Unpack(cred) ==
  IF cred.t = "tuple" THEN cred.v
  ELSE IF cred.t = "str" THEN [i \in 1..Len(cred.v) |-> Str(<<cred.v[i]>>)]
  ELSE Raise("TypeError")

\* credentials (cred); a Credentials object it builds has the ident "new"
credentials(cred) ==
  IF cred.t = "none" THEN None
  ELSE IF cred.t = "Credentials" THEN cred
  ELSE LET args == Unpack(cred)
           made == IF cred.t \in {"tuple", "str"}
                   THEN Credentials__init__("new", args) ELSE args
       IN  IF IsRaise(made) /\ made.v \in {"ValueError", "TypeError"}
           THEN Raise("InvalidCredentialsError")
           ELSE made

\* the values handed to credentials (): None, Credentials objects, tuples of
\* up to MaxTuple elements, strings and a number
MaxTuple == 5
TupleElements == {Str(<<"t", "i", "m">>), PyInt(0)}
TuplesOf(n) == [1..n -> TupleElements]
CredArguments ==
  {None, Passthrough, Anonymous,
   Credentials__init__("cred", <<Str(<<"t", "i", "m">>), Str(<<"p", "w">>)>>),
   PyInt(5), Str(<<"a">>), Str(<<"a", "b">>), Str(<<"a", "b", "c", "d", "e">>)}
    \cup {Tuple(s) : s \in UNION {TuplesOf(n) : n \in 0..MaxTuple}}

CallCredentials ==
  /\ component = "factory"
  /\ \E cred \in CredArguments :
       /\ k_cred' = cred
       /\ k_result' = credentials(cred)
  /\ UNCHANGED exceptFactory

-----------------------------------------------------------------------------
(* trials/threaded.py: threads that each search a server through ad.AD *)

Threads == {"t1", "t2"}

\* the server each thread is started for, and the class of its domain object
ThreadServer == [t1 |-> "holst", t2 |-> "holst"]
DomainClass == "domainDNS"

\* a structure of a module or class, and the threading.local of a module as
\* the calling thread sees it
Shared(name) == [name |-> name, owner |-> "module"]
ThreadLocal(name, thread) == [name |-> name, owner |-> thread]
Access(thread, structure, mode) ==
  [thread |-> thread, structure |-> structure, mode |-> mode]

\* the records logger.debug hands to log.debug_handler for one thread
LogRecords(thread, functions) ==
  [i \in 1..Len(functions) |-> <<thread, functions[i]>>]

\* core.open_object up to the call of adsi.ADsOpenObject: the Credentials
\* object it authenticates with, or what it raised. When credentials (cred) is
\* None, credentials.cache ().get () is called without the server that
\* _CredentialsCache.get requires, which is a TypeError whatever the cache holds
open_object(moniker_server, cred) ==
  LET given == credentials(cred)
      cached == IF given.t = "none" THEN Raise("TypeError") ELSE given
      used == IF cached.t = "none" THEN Passthrough ELSE cached
  IN  IF IsRaise(used)
      THEN [raised |-> used.v, cred |-> None, server_bind |-> FALSE]
      ELSE [raised |-> "None", cred |-> used, server_bind |-> moniker_server # ""]

\* the servers of the monikers opened, "" for a serverless moniker, and the
\* cred arguments given with them
MonikerServers == {"dc1", "dc2", ""}
OpenCreds ==
  {None, Anonymous,
   Credentials__init__("cred", <<Str(<<"t", "i", "m">>), Str(<<"p", "w">>)>>),
   Tuple(<<Str(<<"t", "i", "m">>), Str(<<"p", "w">>)>>)}

\* core.open_object (moniker, cred) called with whatever the thread's
\* credentials cache holds
CallOpenObject ==
  /\ component = "open"
  /\ \E moniker_server \in MonikerServers, cred \in OpenCreds :
       o_call' = [called |-> TRUE, moniker_server |-> moniker_server, cred |-> cred,
                  result |-> open_object(moniker_server, cred)]
  /\ UNCHANGED <<o_open, exceptOpen>>

\* the cred argument of trials/threaded.py's credentials.credentials call
ThreadCredentials ==
  Tuple(<<Str(<<"t", "i", "m">>), Str(<<"p", "w">>), Str(<<"h", "o", "l", "s", "t">>)>>)

\* with credentials.credentials ((username, password, ident)): the new
\* Credentials object is pushed on the thread's own cache
ThreadEnter(t) ==
  /\ component = "threads"
  /\ th_pc[t] = "start"
  /\ \E cred \in {None, ThreadCredentials} :
       th_cred' = [th_cred EXCEPT ![t] = cred]
  /\ th_cache' = [th_cache EXCEPT ![t] =
                    [server \in {ThreadServer[t]} |-> <<"tim@westpark.local">>]]
  /\ th_access' = th_access \cup
       {Access(t, ThreadLocal("credentials.local", t), "write")}
  /\ th_pc' = [th_pc EXCEPT ![t] = "entered"]
  /\ UNCHANGED <<th_caches, th_initialised, schemas, log_stream, exceptThreads>>

\* ad.AD (server, cred) up to the ADBase constructor: core.root_dse fills the
\* thread's caches, then core.open_object (moniker, cred)
AD(t) ==
  /\ component = "threads"
  /\ th_pc[t] = "entered"
  /\ th_caches' = [th_caches EXCEPT ![t] =
                     [server |-> ThreadServer[t],
                      root_dses |-> {<<ThreadServer[t], "LDAP:">>}]]
  /\ th_initialised' = [th_initialised EXCEPT ![t] = TRUE]
  /\ log_stream' = log_stream \o
       LogRecords(t, <<"root_dse", "_get_cache", "_get_server", "_init_if_needed",
                       "_base_moniker", "open_object">>)
  /\ th_access' = th_access \cup
       {Access(t, ThreadLocal("core._caches", t), "write"),
        Access(t, ThreadLocal("core._thread_status", t), "write"),
        Access(t, ThreadLocal("credentials.local", t), "read"),
        Access(t, Shared("log.debug_handler"), "write")}
  /\ th_pc' = [th_pc EXCEPT ![t] =
                 IF open_object(ThreadServer[t], th_cred[t]).raised = "None"
                 THEN "opened" ELSE "raised"]
  /\ UNCHANGED <<th_cred, th_cache, schemas, exceptThreads>>

\* ADBase.__init__: the class's schema is looked up in ADBase._schemas and,
\* if it is not there, opened with core.open_object (schema_path) and stored
ADBase__init__(t) ==
  /\ component = "threads"
  /\ th_pc[t] = "opened"
  /\ LET cls == DomainClass
         schema == open_object(ThreadServer[t], None)
     IN  IF cls \in DOMAIN schemas
         THEN /\ th_pc' = [th_pc EXCEPT ![t] = "search"]
              /\ UNCHANGED <<schemas, log_stream>>
              /\ th_access' = th_access \cup
                   {Access(t, Shared("ADBase._schemas"), "read")}
         ELSE /\ log_stream' = log_stream \o LogRecords(t, <<"open_object">>)
              /\ IF schema.raised = "None"
                 THEN /\ schemas' = [c \in DOMAIN schemas \cup {cls} |->
                                       IF c = cls THEN schema ELSE schemas[c]]
                      /\ th_pc' = [th_pc EXCEPT ![t] = "search"]
                      /\ th_access' = th_access \cup
                           {Access(t, Shared("ADBase._schemas"), "read"),
                            Access(t, Shared("ADBase._schemas"), "write"),
                            Access(t, Shared("log.debug_handler"), "write")}
                 ELSE /\ schemas' = schemas
                      /\ th_pc' = [th_pc EXCEPT ![t] = "raised"]
                      /\ th_access' = th_access \cup
                           {Access(t, Shared("ADBase._schemas"), "read"),
                            Access(t, Shared("log.debug_handler"), "write")}
  /\ UNCHANGED <<th_cred, th_cache, th_caches, th_initialised, exceptThreads>>

\* Credentials.__exit__ as the with block of f is left, by the exception
\* raised in it or after the search: the thread's cache is popped
ThreadExit(t) ==
  /\ component = "threads"
  /\ th_pc[t] \in {"raised", "search"}
  /\ th_cache' = [th_cache EXCEPT ![t] = pop(th_cache[t], ThreadServer[t])]
  /\ th_access' = th_access \cup
       {Access(t, ThreadLocal("credentials.local", t), "write")}
  /\ th_pc' = [th_pc EXCEPT ![t] = IF th_pc[t] = "raised" THEN "died" ELSE "done"]
  /\ UNCHANGED <<th_cred, th_caches, th_initialised, schemas, log_stream, exceptThreads>>

-----------------------------------------------------------------------------
(* active_directory2/ado.py, active_directory/core.py: query, a generator *)

\* the most records a recordset holds
MaxRows == 3

\* query (query_string, connection): a call only creates the generator, none
\* of its body has run yet; a supplied connection is open
query ==
  /\ component = "query"
  /\ q_pc = "idle"
  /\ \E connection \in {"None", "supplied"}, rows \in 0..MaxRows :
       /\ q_connection' = connection
       /\ q_conn' = IF connection = "None" THEN "unopened" ELSE "open"
       /\ q_rows' = rows
  /\ q_pc' = "created"
  /\ q_yielded' = 0
  /\ UNCHANGED exceptQuery

\* next () on the generator, no call failing. The first one runs the body
\* from its start: connection or connect (), the command, command.Execute;
\* a later one resumes after the yield with recordset.MoveNext. Then the loop
\* yields the next record, or at EOF the connection is closed if none was
\* supplied and the generator ends
query_next ==
  /\ component = "query"
  /\ q_pc \in {"created", "suspended"}
  /\ LET rows == IF q_pc = "suspended" THEN q_rows - 1 ELSE q_rows
         opened == IF q_conn = "unopened" THEN "open" ELSE q_conn
     IN  /\ q_rows' = rows
         /\ IF rows > 0
            THEN /\ q_pc' = "suspended"
                 /\ q_yielded' = q_yielded + 1
                 /\ q_conn' = opened
            ELSE /\ q_pc' = "exhausted"
                 /\ q_yielded' = q_yielded
                 /\ q_conn' = IF q_connection = "None" THEN "closed" ELSE opened
  /\ UNCHANGED <<q_connection, exceptQuery>>

\* next () on the generator when exc.wrapped (command.Execute) or
\* exc.wrapped (recordset.MoveNext) raises: the exception leaves the generator
\* from that line, and no statement of query is run after it
query_raise ==
  /\ component = "query"
  /\ q_pc \in {"created", "suspended"}
  /\ q_conn' = IF q_conn = "unopened" THEN "open" ELSE q_conn
  /\ q_pc' = "raised"
  /\ UNCHANGED <<q_connection, q_rows, q_yielded, exceptQuery>>

\* the caller abandons the iteration: close () on the generator, or its
\* collection, raises GeneratorExit at the yield it is suspended on, and
\* nothing of the body is run after that; a generator never started just ends
query_close ==
  /\ component = "query"
  /\ q_pc \in {"created", "suspended"}
  /\ q_pc' = "abandoned"
  /\ UNCHANGED <<q_connection, q_conn, q_rows, q_yielded, exceptQuery>>

-----------------------------------------------------------------------------
(* active_directory2/adbase.py: ADBase, attribute writes *)

\* str.rstrip (chars) for one character
rstrip(s, ch) ==
  LET keep == {n \in 0..Len(s) : \A i \in (n + 1)..Len(s) : s[i] = ch}
      n == CHOOSE n \in keep : \A m \in keep : n <= m
  IN  SubSeq(s, 1, n)

\* str.split (sep) for one character: the pieces between the separators
RECURSIVE split(_, _)
split(s, sep) ==
  LET at == {i \in 1..Len(s) : s[i] = sep}
  IN  IF at = {} THEN <<s>>
      ELSE LET i == CHOOSE i \in at : \A j \in at : i <= j
           IN  <<SubSeq(s, 1, i - 1)>> \o split(SubSeq(s, i + 1, Len(s)), sep)

\* sep.join (parts)
RECURSIVE join(_, _)
join(sep, parts) ==
  IF parts = <<>> THEN <<>>
  ELSE IF Len(parts) = 1 THEN parts[1]
  ELSE parts[1] \o sep \o join(sep, Tail(parts))

\* a munging that leaves the name as it is
_unmunged_attribute(name) == name

\* ADBase._munged_attribute: u"-".join (name.rstrip ("_").split (u"_"))
_munged_attribute(name) == join(<<"-">>, split(rstrip(name, "_"), "_"))

\* a call made on self.com_object
ComCall(method, control, name, value) ==
  [method |-> method, control |-> control, name |-> name, value |-> value]
SetInfo == ComCall("SetInfo", "", <<>>, None)

\* ADBase._put: the call it makes on self.com_object
_put(name, value) ==
  IF value.t = "none" THEN ComCall("PutEx", "CLEAR", name, None)
  ELSE ComCall("Put", "", name, value)

\* the calls of a sequence that are issued when the call numbered fail
\* raises out of exc.wrapped; 0 when none raises
Issued(calls, fail) ==
  IF fail = 0 \/ fail > Len(calls) THEN calls ELSE SubSeq(calls, 1, fail)

\* a variant of ADBase.set that commits after every write
set_each(items, fail) ==
  Issued([i \in 1..(2 * Len(items)) |->
            IF i % 2 = 1 THEN _put(items[(i + 1) \div 2][1], items[(i + 1) \div 2][2])
            ELSE SetInfo],
         fail)

\* ADBase.set, the calls it makes on self.com_object: items is
\* kwargs.items ()
set(items, fail) ==
  Issued([i \in 1..Len(items) |-> _put(items[i][1], items[i][2])] \o <<SetInfo>>,
         fail)

\* the properties of the object's schema, the names assigned to and the
\* values assigned
SchemaProperties == {<<"s", "n">>, <<"a", "-", "b">>}
KeywordNames == {<<"s", "n">>, <<"c", "n">>, <<"a", "_", "b">>}
AttributeNamesSet ==
  {<<"s", "n">>, <<"a", "_", "b">>, <<"s", "n", "_">>, <<"a", "_", "b", "_", "_">>,
   <<"a", "-", "b">>, <<"x", "_">>}
AttributeValues == {None, Str(<<"v">>)}

\* the orders kwargs.items () can give the entries of kwargs in
ItemsOf(kwargs) ==
  {items \in [1..Cardinality(DOMAIN kwargs) -> {<<k, kwargs[k]>> : k \in DOMAIN kwargs}] :
     \A i, j \in DOMAIN items : i # j => items[i] # items[j]}

\* obj.set (**kwargs)
ADBase_set ==
  /\ component = "adbase"
  /\ \E names \in SUBSET KeywordNames :
       \E kwargs \in [names -> AttributeValues] :
         \E items \in ItemsOf(kwargs), fail \in 0..(Cardinality(names) + 1) :
           /\ a_log' = set(items, fail)
           /\ a_call' = [op |-> "set", kwargs |-> kwargs, name |-> <<>>, value |-> None,
                         failed |-> IF fail = 0 THEN "none"
                                    ELSE IF fail <= Len(items) THEN "write"
                                    ELSE "SetInfo",
                         dict |-> a_dict]
  /\ UNCHANGED <<a_properties, a_dict, exceptAdbase>>

\* obj.name = value: ADBase.__setattr__
ADBase__setattr__ ==
  /\ component = "adbase"
  /\ \E name \in AttributeNamesSet, value \in AttributeValues, fail \in 0..2 :
       LET munged_name == _munged_attribute(name)
       IN  /\ IF munged_name \in a_properties
              THEN /\ a_log' = Issued(<<_put(munged_name, value), SetInfo>>, fail)
                   /\ a_dict' = a_dict
              ELSE /\ a_log' = <<>>
                   /\ a_dict' = [n \in DOMAIN a_dict \cup {name} |->
                                   IF n = name THEN value ELSE a_dict[n]]
           /\ a_call' = [op |-> "setattr", kwargs |-> [n \in {} |-> None], name |-> name,
                         value |-> value,
                         failed |-> IF munged_name \notin a_properties \/ fail = 0
                                    THEN "none"
                                    ELSE IF fail = 1 THEN "write" ELSE "SetInfo",
                         dict |-> a_dict]
  /\ UNCHANGED <<a_properties, exceptAdbase>>

-----------------------------------------------------------------------------
(* active_directory2/utils.py: parse_moniker, and the server binding of
   core.open_object *)

\* the characters of the class [A-za-z0-9-_] of parse_moniker's pattern: the
\* range A-z takes in the characters between Z and a, of which the backquote
\* is the one not written here
ServerClass ==
  {"A", "B", "C", "D", "E", "F", "G", "H", "I", "J", "K", "L", "M", "N", "O",
   "P", "Q", "R", "S", "T", "U", "V", "W", "X", "Y", "Z", "[", "\\", "]", "^",
   "_", "a", "b", "c", "d", "e", "f", "g", "h", "i", "j", "k", "l", "m",
   "n", "o", "p", "q", "r", "s", "t", "u", "v", "w", "x", "y", "z", "0", "1",
   "2", "3", "4", "5", "6", "7", "8", "9", "-"}

\* whether the string holds an escaped slash, moniker.find ("\\/") > -1
HasEscapedSlash(s) == \E i \in 1..(Len(s) - 1) : s[i] = "\\" /\ s[i + 1] = "/"

\* str.replace ("/", "\\/")
RECURSIVE EscapeSlashes(_)
EscapeSlashes(s) ==
  IF s = <<>> THEN <<>>
  ELSE (IF s[1] = "/" THEN <<"\\", "/">> ELSE <<s[1]>>) \o EscapeSlashes(Tail(s))

\* utils.escaped_moniker
escaped_moniker(moniker) ==
  IF HasEscapedSlash(moniker) THEN moniker ELSE EscapeSlashes(moniker)

\* utils.parse_moniker: the groups of ([^:]+://)([A-za-z0-9-_]+/)?(.*) matched
\* at the start of the moniker; without a match re.match gives None, whose
\* groups are an AttributeError
parse_moniker(moniker) ==
  LET colons == {i \in 1..Len(moniker) : moniker[i] = ":"}
      colon == CHOOSE i \in colons : \A j \in colons : i <= j
      matched == /\ colons # {}
                 /\ colon > 1
                 /\ colon + 2 <= Len(moniker)
                 /\ moniker[colon + 1] = "/"
                 /\ moniker[colon + 2] = "/"
      rest == SubSeq(moniker, colon + 3, Len(moniker))
      runs == {n \in 0..Len(rest) : \A i \in 1..n : rest[i] \in ServerClass}
      run == CHOOSE n \in runs : \A m \in runs : m <= n
      has_server == run >= 1 /\ run < Len(rest) /\ rest[run + 1] = "/"
      server == IF has_server THEN SubSeq(rest, 1, run + 1) ELSE <<>>
      dn == IF has_server THEN SubSeq(rest, run + 2, Len(rest)) ELSE rest
  IN  IF ~matched
      THEN [raised |-> "AttributeError", scheme |-> <<>>, server |-> <<>>, dn |-> <<>>]
      ELSE [raised |-> "None",
            scheme |-> SubSeq(moniker, 1, colon + 2),
            server |-> IF server # <<>> THEN rstrip(server, "/") \o <<"/">> ELSE <<>>,
            dn |-> escaped_moniker(dn)]

\* the monikers opened: scheme://host/dn, or scheme://dn when there is no host
MonikerSchemes == {<<"L", "D", "A", "P", ":">>, <<"G", "C", ":">>}
MonikerHosts == {<<>>, <<"d", "c", "1">>, <<"d", "-", "c", "_", "1">>, <<"d", "c", ".", "x">>}
MonikerDns == {<<>>, <<"o", "=", "x">>, <<"c", "n", "=", "a", "/", "b">>,
               <<"r", "o", "o", "t", "D", "S", "E">>}
MonikerOf(scheme, host, dn) ==
  scheme \o <<"/", "/">> \o (IF host = <<>> THEN <<>> ELSE host \o <<"/">>) \o dn

\* core.open_object (moniker, cred) with credentials given: whether
\* SERVER_BIND is among the flags handed to adsi.ADsOpenObject
CallOpenObjectMoniker ==
  /\ component = "moniker"
  /\ \E scheme \in MonikerSchemes, host \in MonikerHosts, dn \in MonikerDns :
       LET parsed == parse_moniker(MonikerOf(scheme, host, dn))
           opened == open_object(IF parsed.server = <<>> THEN "" ELSE "server", Anonymous)
       IN  o_open' = [called |-> TRUE, scheme |-> scheme, host |-> host, dn |-> dn,
                      parsed |-> parsed,
                      server_bind |-> parsed.raised = "None" /\ opened.server_bind]
  /\ UNCHANGED <<o_call, exceptOpen>>

-----------------------------------------------------------------------------
(* active_directory2/core.py: the per-thread caches of monikers and objects *)

\* a function with one more entry
Setitem(dict, key, value) ==
  [k \in DOMAIN dict \cup {key} |-> IF k = key THEN value ELSE dict[k]]

\* what a core function hands back: the thread's caches after the call, the
\* exception raised if any, and the value returned
Returned(caches, value) == [caches |-> caches, raised |-> "None", value |-> value]
Raised(caches, exc) == [caches |-> caches, raised |-> exc, value |-> <<>>]

\* core._get_server: a server that is not None is remembered in
\* _caches.server, and the remembered one is returned
_get_server(caches, server) ==
  LET remembered == IF server.t # "none" THEN server ELSE caches.server
  IN  Returned([caches EXCEPT !.server = remembered], remembered)

\* core._base_moniker. _get_server (server).rstrip ("/") is an AttributeError
\* when _get_server returns None
_base_moniker(caches, server, scheme) ==
  LET got == _get_server(caches, server)
  IN  IF got.value.t = "none" THEN Raised(got.caches, "AttributeError")
      ELSE LET stripped == rstrip(got.value.v, "/")
               key == <<stripped, scheme>>
               _base_monikers == got.caches.base_monikers
               refreshed ==
                 IF key \notin DOMAIN _base_monikers
                 THEN Setitem(_base_monikers, key,
                              IF stripped # <<>>
                              THEN <<scheme, "//">> \o stripped \o <<"/">>
                              ELSE <<scheme, "//">>)
                 ELSE _base_monikers
           IN  Returned([got.caches EXCEPT !.base_monikers = refreshed], refreshed[key])

\* core.root_dse: the object GetObject gives for the moniker of the rootDSE
root_dse(caches, server, scheme) ==
  LET got == _get_server(caches, server)
  IN  IF got.value.t = "none" THEN Raised(got.caches, "AttributeError")
      ELSE LET stripped == rstrip(got.value.v, "/")
               key == <<stripped, scheme>>
           IN  IF key \in DOMAIN got.caches.root_dses
               THEN Returned(got.caches, got.caches.root_dses[key])
               ELSE LET base == _base_moniker(got.caches, Str(stripped), scheme)
                        dse == [ADsPath |-> base.value \o <<"rootDSE">>,
                                cred |-> "Passthrough"]
                    IN  Returned([base.caches EXCEPT
                                    !.root_dses = Setitem(@, key, dse)], dse)

\* dse.Get ("defaultNamingContext")
defaultNamingContext == <<"DC=example,DC=local">>

\* core.root_moniker
root_moniker(caches, server, scheme) ==
  LET got == _get_server(caches, server)
  IN  IF got.value.t = "none" THEN Raised(got.caches, "AttributeError")
      ELSE LET stripped == rstrip(got.value.v, "/")
               key == <<stripped, scheme>>
           IN  IF key \in DOMAIN got.caches.root_monikers
               THEN Returned(got.caches, got.caches.root_monikers[key])
               ELSE LET dse == root_dse(got.caches, Str(stripped), scheme)
                        base == _base_moniker(dse.caches, Str(stripped), scheme)
                        moniker == base.value \o defaultNamingContext
                    IN  Returned([base.caches EXCEPT
                                    !.root_monikers = Setitem(@, key, moniker)],
                                 moniker)

\* core.root_obj: the cache is keyed by the server alone
root_obj(caches, server, scheme, cred) ==
  LET got == _get_server(caches, server)
  IN  IF got.value.t = "none" THEN Raised(got.caches, "AttributeError")
      ELSE LET stripped == rstrip(got.value.v, "/")
           IN  IF stripped \in DOMAIN got.caches.root_objs
               THEN Returned(got.caches, got.caches.root_objs[stripped])
               ELSE LET moniker == root_moniker(got.caches, Str(stripped), scheme)
                        opened == open_object(IF stripped = <<>> THEN "" ELSE "server", cred)
                        obj == [ADsPath |-> moniker.value,
                                cred |-> IF opened.raised = "None"
                                         THEN opened.cred.v.ident ELSE "None"]
                    IN  IF opened.raised # "None"
                        THEN Raised(moniker.caches, opened.raised)
                        ELSE Returned([moniker.caches EXCEPT
                                         !.root_objs = Setitem(@, stripped, obj)], obj)

\* the servers, schemes and credentials the functions are called with
CoreServers == {None, Str(<<"a">>), Str(<<"a", "/">>)}
Schemes == {"LDAP:", "GC:"}
CoreCreds ==
  {None, Tuple(<<Str(<<"t", "i", "m">>), Str(<<"p", "w">>)>>)}

\* the record of a call: what was called with what, what came of it, and,
\* when the call before it had the same arguments, what came of that one
CoreCall(fn, server, scheme, cred, outcome) ==
  LET again == /\ r_call.fn = fn
               /\ PyEq(r_call.server, server)
               /\ r_call.scheme = scheme
               /\ PyEq(r_call.cred, cred)
  IN  [fn |-> fn, server |-> server, scheme |-> scheme, cred |-> cred,
       raised |-> outcome.raised, value |-> outcome.value,
       again |-> again,
       before |-> IF again THEN [raised |-> r_call.raised, value |-> r_call.value]
                  ELSE [raised |-> "None", value |-> <<>>]]

Call_base_moniker ==
  /\ component = "core"
  /\ \E server \in CoreServers, scheme \in Schemes :
       LET outcome == _base_moniker(r_caches, server, scheme)
       IN  /\ r_caches' = outcome.caches
           /\ r_call' = CoreCall("_base_moniker", server, scheme, None, outcome)
  /\ UNCHANGED exceptCore

Call_root_dse ==
  /\ component = "core"
  /\ \E server \in CoreServers, scheme \in Schemes :
       LET outcome == root_dse(r_caches, server, scheme)
       IN  /\ r_caches' = outcome.caches
           /\ r_call' = CoreCall("root_dse", server, scheme, None, outcome)
  /\ UNCHANGED exceptCore

Call_root_moniker ==
  /\ component = "core"
  /\ \E server \in CoreServers, scheme \in Schemes :
       LET outcome == root_moniker(r_caches, server, scheme)
       IN  /\ r_caches' = outcome.caches
           /\ r_call' = CoreCall("root_moniker", server, scheme, None, outcome)
  /\ UNCHANGED exceptCore

Call_root_obj ==
  /\ component = "core"
  /\ \E server \in CoreServers, scheme \in Schemes, cred \in CoreCreds :
       LET outcome == root_obj(r_caches, server, scheme, cred)
       IN  /\ r_caches' = outcome.caches
           /\ r_call' = CoreCall("root_obj", server, scheme, cred, outcome)
  /\ UNCHANGED exceptCore

-----------------------------------------------------------------------------
(* active_directory2/adbase.py: ADBase, moving objects between containers *)

\* the objects of the directory, each named by its objectGuid, the
\* containers among them, and the relative distinguished names in use
DirObjects == {"ou1", "ou2", "u1", "u2"}
DirContainers == {"ou1", "ou2"}
Rdns == {"cn=u1", "cn=u2", "ou=ou1", "ou=ou2"}

\* the children of a container
ChildrenOf(parent, container) == {o \in DirObjects : parent[o] = container}

\* ADBase._get_object (rdn): the child of the container with that rdn, or the
\* error container.GetObject raises for a name that is not there
_get_object(parent, rdn_of, self, rdn) ==
  IF \E o \in ChildrenOf(parent, self) : rdn_of[o] = rdn
  THEN CHOOSE o \in ChildrenOf(parent, self) : rdn_of[o] = rdn
  ELSE "ActiveDirectoryError"

\* whether an object is the container or one of the containers it lies in
RECURSIVE IsWithin(_, _, _)
IsWithin(parent, container, obj) ==
  \/ container = obj
  \/ parent[container] \in DirObjects /\ IsWithin(parent, parent[container], obj)

\* IADsContainer.MoveHere (path of obj, new_rdn) on the container elsewhere:
\* the directory afterwards, the object keeping its objectGuid, or the error
\* raised for a target that is no container, a name already taken there, an
\* object that has children or that the target lies in
MoveHere(parent, rdn_of, elsewhere, obj, new_rdn) ==
  IF \/ elsewhere \notin DirContainers
     \/ IsWithin(parent, elsewhere, obj)
     \/ ChildrenOf(parent, obj) # {}
     \/ \E o \in ChildrenOf(parent, elsewhere) : o # obj /\ rdn_of[o] = new_rdn
  THEN [raised |-> "ActiveDirectoryError", parent |-> parent, rdn |-> rdn_of]
  ELSE [raised |-> "None",
        parent |-> [parent EXCEPT ![obj] = elsewhere],
        rdn |-> [rdn_of EXCEPT ![obj] = new_rdn]]

\* ADBase.factory: an ADBase object is returned as it is; a string goes to
\* from_path and core.open_object, where utils.parse_moniker calls .groups ()
\* on the None that re.match gives for a string without a scheme
factory(obj_or_path) ==
  IF obj_or_path \in DirObjects THEN [raised |-> "None", obj |-> obj_or_path]
  ELSE [raised |-> "AttributeError", obj |-> "None"]

\* ADBase.move0 (rdn, elsewhere, new_rdn): moves the child named rdn
move0(parent, rdn_of, self, rdn, elsewhere, new_rdn) ==
  LET elsewhere_obj == factory(elsewhere)
      child == _get_object(parent, rdn_of, self, rdn)
  IN  IF elsewhere_obj.raised # "None"
      THEN [raised |-> elsewhere_obj.raised, parent |-> parent, rdn |-> rdn_of]
      ELSE IF child \notin DirObjects
      THEN [raised |-> child, parent |-> parent, rdn |-> rdn_of]
      ELSE MoveHere(parent, rdn_of, elsewhere_obj.obj, child,
                    IF new_rdn # "None" THEN new_rdn ELSE rdn)

\* ADBase.move (elsewhere, new_rdn): moves the object itself; a new_rdn that
\* is no string cannot be passed to MoveHere
move(parent, rdn_of, self, elsewhere, new_rdn) ==
  LET elsewhere_obj == factory(elsewhere)
      name == IF new_rdn # "None" THEN new_rdn ELSE rdn_of[self]
  IN  IF elsewhere_obj.raised # "None"
      THEN [raised |-> elsewhere_obj.raised, parent |-> parent, rdn |-> rdn_of]
      ELSE IF name \notin Rdns
      THEN [raised |-> "TypeError", parent |-> parent, rdn |-> rdn_of]
      ELSE MoveHere(parent, rdn_of, elsewhere_obj.obj, self, name)

\* the record of a call: the object it was made on, its arguments in order,
\* the child the first argument named before the call, and what was raised
MoveCall(op, self, args, outcome) ==
  [op |-> op, self |-> self, args |-> args,
   child |-> _get_object(d_parent, d_rdn, self, args[1]),
   raised |-> outcome.raised]

\* container.move0 (rdn, elsewhere)
ADBase_move0 ==
  /\ component = "move"
  /\ \E self \in DirContainers, rdn \in Rdns, elsewhere \in DirContainers :
       LET outcome == move0(d_parent, d_rdn, self, rdn, elsewhere, "None")
       IN  /\ d_parent' = outcome.parent
           /\ d_rdn' = outcome.rdn
           /\ d_call' = MoveCall("move0", self, <<rdn, elsewhere>>, outcome)
  /\ UNCHANGED exceptMove

\* obj.move (elsewhere, new_rdn), called with a container and a name or
\* nothing, or, as on a container, with the rdn of a child and a container
ADBase_move ==
  /\ component = "move"
  /\ \E self \in DirObjects, elsewhere \in DirContainers \cup Rdns,
        new_rdn \in {"None", "cn=u1", "cn=u2"} \cup DirContainers :
       LET outcome == move(d_parent, d_rdn, self, elsewhere, new_rdn)
       IN  /\ d_parent' = outcome.parent
           /\ d_rdn' = outcome.rdn
           /\ d_call' = MoveCall("move", self, <<elsewhere, new_rdn>>, outcome)
  /\ UNCHANGED exceptMove

-----------------------------------------------------------------------------
(* active_directory.py: Path.relative_to, and scrap/t.py: relative_to *)

\* the most elements a path has, and the elements paths are made of; a path
\* is the sequence of its elements, the leaf first
MaxPath == 3
PathElements == {"dc=x", "ou=y"}
Paths == UNION {[1..n -> PathElements] : n \in 0..MaxPath}

\* s[:stop] of Python for a sequence
SliceTo(s, stop) ==
  LET end == IF stop < 0 THEN (IF Len(s) + stop < 0 THEN 0 ELSE Len(s) + stop)
             ELSE IF stop > Len(s) THEN Len(s) ELSE stop
  IN  SubSeq(s, 1, end)

\* whether zip (reversed (a), reversed (b)) holds a pair of unequal elements
ZipReversedDiffers(a, b) ==
  \E i \in 1..(IF Len(a) < Len(b) THEN Len(a) ELSE Len(b)) :
    a[Len(a) - i + 1] # b[Len(b) - i + 1]

\* Path.from_iter: an empty path to which the elements are appended in
\* reverse, each one becoming the new leaf (AddLeafElement)
reversed(s) == [i \in 1..Len(s) |-> s[Len(s) - i + 1]]

\* Path.append: AddLeafElement makes the element the new leaf
append(path, element) == <<element>> \o path

RECURSIVE AppendEach(_, _)
AppendEach(path, elements) ==
  IF elements = <<>> THEN path
  ELSE AppendEach(append(path, elements[1]), Tail(elements))

from_iter(iter) == AppendEach(<<>>, reversed(iter))

\* Path.relative_to
Path_relative_to(self, other) ==
  IF Len(self) < Len(other) THEN [raised |-> "PathTooShortError", value |-> <<>>]
  ELSE IF ZipReversedDiffers(self, other)
  THEN [raised |-> "PathDisjointError", value |-> <<>>]
  ELSE [raised |-> "None", value |-> from_iter(SliceTo(self, 0 - Len(other)))]

\* relative_to (l1, l2) of scrap/t.py, l2 being the longer path; the message
\* of its ShorterError is formatted from o, a name that is not defined
relative_to(l1, l2) ==
  IF Len(l2) < Len(l1) THEN [raised |-> "NameError", value |-> <<>>]
  ELSE IF ZipReversedDiffers(l1, l2)
  THEN [raised |-> "DisjointError", value |-> <<>>]
  ELSE [raised |-> "None", value |-> SliceTo(l2, 0 - Len(l1))]

\* self.relative_to (other)
CallPathRelativeTo ==
  /\ component = "path"
  /\ \E self \in Paths, other \in Paths :
       p_call' = [fn |-> "Path.relative_to", self |-> self, other |-> other,
                  result |-> Path_relative_to(self, other)]
  /\ UNCHANGED exceptPath

\* relative_to (other, self) of scrap/t.py
CallRelativeTo ==
  /\ component = "path"
  /\ \E self \in Paths, other \in Paths :
       p_call' = [fn |-> "relative_to", self |-> self, other |-> other,
                  result |-> relative_to(other, self)]
  /\ UNCHANGED exceptPath

-----------------------------------------------------------------------------
(* walk and flat of active_directory (base.py, active_directory.py) and of
   active_directory2 (adbase.py) *)

\* the directory walked: containers and items below the root "top"
WalkContainers == {"c1", "c2", "c3"}
WalkItems == {"i1", "i2"}
WalkObjects == WalkContainers \cup WalkItems

\* the distance of an object from the root, following its parents for at
\* most n steps; n + 1 where the root is not reached
RECURSIVE DepthOf(_, _, _)
DepthOf(parent, obj, n) ==
  IF obj = "top" THEN 0
  ELSE IF n = 0 THEN 1
  ELSE 1 + DepthOf(parent, parent[obj], n - 1)

\* the directories: every object is in a container or in the root, and the
\* root is reached from every object
Trees ==
  {parent \in [WalkObjects -> WalkContainers \cup {"top"}] :
     \A obj \in WalkObjects :
       DepthOf(parent, obj, Cardinality(WalkObjects)) <= Cardinality(WalkObjects)}

\* the objects of a set in the order in which the directory enumerates them
RECURSIVE Enumerated(_)
Enumerated(objs) ==
  IF objs = {} THEN <<>>
  ELSE LET first == CHOOSE obj \in objs : TRUE
       IN  <<first>> \o Enumerated(objs \ {first})

\* list (self): the children of a container
Children(parent, self) == Enumerated({obj \in WalkObjects : parent[obj] = self})

is_container(obj) == obj \in WalkContainers

\* the sequences of a sequence of sequences one after another
RECURSIVE Chain(_)
Chain(seqs) == IF seqs = <<>> THEN <<>> ELSE seqs[1] \o Chain(Tail(seqs))

\* walk of active_directory without the descent into the child containers
walk_top(parent, self) ==
  LET children == Children(parent, self)
  IN  <<[container |-> self,
         containers |-> SelectSeq(children, is_container),
         items |-> SelectSeq(children, LAMBDA c : ~is_container(c))]>>

\* walk of active_directory: the entries yielded, in order
RECURSIVE walk(_, _)
walk(parent, self) ==
  LET children == Children(parent, self)
      this_containers == SelectSeq(children, is_container)
      this_items == SelectSeq(children, LAMBDA c : ~is_container(c))
  IN  <<[container |-> self, containers |-> this_containers, items |-> this_items]>>
        \o Chain([i \in 1..Len(this_containers) |-> walk(parent, this_containers[i])])

\* flat of active_directory: the items of every entry of the walk
flat(parent, self) ==
  LET entries == walk(parent, self)
  IN  Chain([i \in 1..Len(entries) |-> entries[i].items])

\* walk of active_directory2: the entries yielded, each with its level
RECURSIVE ADBase_walk(_, _, _)
ADBase_walk(parent, self, level) ==
  LET subordinates == Children(parent, self)
  IN  <<[level |-> level, container |-> self,
         containers |-> SelectSeq(subordinates, is_container),
         items |-> SelectSeq(subordinates, LAMBDA s : ~is_container(s))]>>
        \o Chain([i \in 1..Len(subordinates) |->
                    IF is_container(subordinates[i])
                    THEN ADBase_walk(parent, subordinates[i], level + 1)
                    ELSE <<>>])

\* flat of active_directory2
ADBase_flat(parent, self) ==
  LET entries == ADBase_walk(parent, self, 0)
  IN  Chain([i \in 1..Len(entries) |-> entries[i].items])

\* list (container.walk ()) and list (container.flat ()) of active_directory
CallWalk ==
  /\ component = "walk"
  /\ \E self \in WalkContainers \cup {"top"} :
       w_call' = [fn |-> "walk", self |-> self,
                  entries |-> walk(w_parent, self), flat |-> flat(w_parent, self)]
  /\ UNCHANGED <<w_parent, exceptWalk>>

\* list (container.walk ()) and list (container.flat ()) of active_directory2
CallADBaseWalk ==
  /\ component = "walk"
  /\ \E self \in WalkContainers \cup {"top"} :
       w_call' = [fn |-> "ADBase.walk", self |-> self,
                  entries |-> ADBase_walk(w_parent, self, 0),
                  flat |-> ADBase_flat(w_parent, self)]
  /\ UNCHANGED <<w_parent, exceptWalk>>

-----------------------------------------------------------------------------
(* The wrappers that keep converted property values in _delegate_map: ADBase
   of active_directory/base.py and of active_directory/active_directory.py,
   and _AD_object of active_directory.py *)

Wrappers == {"base", "active_directory", "_AD_object"}

\* the properties of the wrapped object and the values the directory holds
DelegateProperties == {"displayName", "objectGUID"}
DelegateValues == {"v1", "v2"}

\* the converter of a property applied to a value: convert_to_guid for a name
\* that ends in GUID, and the value as it is for a name without a converter
ConvertedValue(name, value) == [guid |-> name = "objectGUID", of |-> value]

\* what a read hands back
ReadReturned(value) == [raised |-> "None", value |-> value]
ReadRaised(exc) == [raised |-> exc, value |-> [guid |-> FALSE, of |-> "v1"]]

\* a function without the entry of a key
Delitem(dict, key) == [k \in DOMAIN dict \ {key} |-> dict[k]]

\* get_converter (name) as __getattr__ finds it: base.py neither defines nor
\* imports the name, active_directory/active_directory.py defines it, and
\* _AD_object looks the converter up in its _property_map
ConverterLookup(cls) == IF cls = "base" THEN "NameError" ELSE "None"

\* __getattr__ (name) for a property: the map after the read and what the
\* read returned
Delegate__getattr__(cls, com, map, name) ==
  IF name \in DOMAIN map THEN [map |-> map, result |-> ReadReturned(map[name])]
  ELSE IF ConverterLookup(cls) # "None"
  THEN [map |-> map, result |-> ReadRaised(ConverterLookup(cls))]
  ELSE LET converted == ConvertedValue(name, com[name])
       IN  [map |-> Setitem(map, name, converted), result |-> ReadReturned(converted)]

\* __setattr__ (name, value) for a property, after Put and SetInfo: the map;
\* ADBase deletes the entry of the name, _AD_object does not
Delegate__setattr__(cls, map, name) ==
  IF cls \in {"base", "active_directory"} /\ name \in DOMAIN map THEN Delitem(map, name)
  ELSE map

\* the keyword arguments of set ()
DelegateKwds ==
  UNION {[names -> DelegateValues] : names \in SUBSET DelegateProperties \ {{}}}

\* value = obj.name
DelegateRead ==
  /\ component = "delegate"
  /\ \E name \in DelegateProperties :
       LET got == Delegate__getattr__(g_wrapper, g_com, g_delegate_map, name)
       IN  /\ g_delegate_map' = got.map
           /\ g_read' = [called |-> TRUE, name |-> name, held |-> g_com[name],
                         raised |-> got.result.raised, value |-> got.result.value,
                         after |-> g_last]
  /\ g_last' = "read"
  /\ UNCHANGED <<g_wrapper, g_com, g_directory, exceptDelegate>>

\* obj.name = value: Put and SetInfo, then the wrapper's handling of the map
DelegateSetattr ==
  /\ component = "delegate"
  /\ \E name \in DelegateProperties, value \in DelegateValues :
       /\ g_com' = [g_com EXCEPT ![name] = value]
       /\ g_directory' = [g_directory EXCEPT ![name] = value]
       /\ g_delegate_map' = Delegate__setattr__(g_wrapper, g_delegate_map, name)
  /\ g_last' = "setattr"
  /\ UNCHANGED <<g_wrapper, g_read, exceptDelegate>>

\* obj.set (**kwds): Put for every item and one SetInfo; the map is not touched
DelegateSet ==
  /\ component = "delegate"
  /\ \E kwds \in DelegateKwds :
       /\ g_com' = [n \in DelegateProperties |->
                      IF n \in DOMAIN kwds THEN kwds[n] ELSE g_com[n]]
       /\ g_directory' = [n \in DelegateProperties |->
                            IF n \in DOMAIN kwds THEN kwds[n] ELSE g_directory[n]]
  /\ g_last' = "set"
  /\ UNCHANGED <<g_wrapper, g_delegate_map, g_read, exceptDelegate>>

\* obj.refresh () of ADBase: GetInfo loads what the directory holds; the map
\* is not touched
DelegateRefresh ==
  /\ component = "delegate"
  /\ g_wrapper \in {"base", "active_directory"}
  /\ g_com' = g_directory
  /\ g_last' = "refresh"
  /\ UNCHANGED <<g_wrapper, g_directory, g_delegate_map, g_read, exceptDelegate>>

\* another client of the directory writes a property of the object
DirectoryWritten ==
  /\ component = "delegate"
  /\ \E name \in DelegateProperties, value \in DelegateValues :
       /\ g_directory[name] # value
       /\ g_directory' = [g_directory EXCEPT ![name] = value]
  /\ UNCHANGED <<g_wrapper, g_com, g_delegate_map, g_read, g_last, exceptDelegate>>

-----------------------------------------------------------------------------
(* _Members, the set of a group's members, of active_directory/ad.py,
   active_directory/active_directory.py and active_directory2/adobject.py *)

MembersModules == {"ad", "active_directory", "adobject"}

\* the objects that can be members of the group, each told by its GUID
Principals == {"p1", "p2", "p3"}

\* the most frames the interpreter lets a recursion reach
RecursionLimit == 4

\* the most arguments a call is given
MaxOthers == 2
OthersArguments == UNION {[1..n -> SUBSET Principals] : n \in 0..MaxOthers}

\* group.Add and group.Remove issued one after another: the directory group
\* refuses a member it already has and the removal of one it has not
RECURSIVE IssueEach(_, _)
IssueEach(done, calls) ==
  IF calls = <<>> \/ done.raised # "None" THEN done
  ELSE LET call == calls[1]
           refused == IF call.op = "Add" THEN call.member \in done.directory
                      ELSE call.member \notin done.directory
       IN  IssueEach([directory |-> IF refused THEN done.directory
                                    ELSE IF call.op = "Add"
                                    THEN done.directory \cup {call.member}
                                    ELSE done.directory \ {call.member},
                      issued |-> Append(done.issued, call),
                      raised |-> IF refused THEN "ActiveDirectoryError" ELSE "None"],
                     Tail(calls))

\* an _effect that adds the new members and removes none
_effect_adds_only(module, directory, self, original) ==
  LET adds == Enumerated(self \ original)
  IN  IssueEach([directory |-> directory, issued |-> <<>>, raised |-> "None"],
                [i \in 1..Len(adds) |-> [op |-> "Add", member |-> adds[i]]])

\* _Members._effect (original): Add for the members of self - original, Remove
\* for those of original - self; adobject.py then calls the group's
\* _invalidate, which neither ADObject nor ADBase of adbase.py defines
_effect(module, directory, self, original) ==
  LET adds == Enumerated(self \ original)
      removes == Enumerated(original \ self)
      done == IssueEach([directory |-> directory, issued |-> <<>>, raised |-> "None"],
                        [i \in 1..Len(adds) |-> [op |-> "Add", member |-> adds[i]]]
                          \o [i \in 1..Len(removes) |->
                                [op |-> "Remove", member |-> removes[i]]])
  IN  IF done.raised = "None" /\ module = "adobject"
      THEN [done EXCEPT !.raised = "AttributeError"]
      ELSE done

\* set.update (*others) and set.intersection_update (*others)
RECURSIVE set_update(_, _)
set_update(self, others) ==
  IF others = <<>> THEN self ELSE set_update(self \cup others[1], Tail(others))
RECURSIVE set_intersection_update(_, _)
set_intersection_update(self, others) ==
  IF others = <<>> THEN self
  ELSE set_intersection_update(self \cap others[1], Tail(others))

\* a call with nargs arguments that changed the set to self and then ran
\* _effect
Effected(op, nargs, self) ==
  LET done == _effect(m_module, m_directory, self, m_set)
  IN  /\ m_set' = self
      /\ m_directory' = done.directory
      /\ m_call' = [op |-> op, nargs |-> nargs, before |-> m_set,
                    issued |-> done.issued, raised |-> done.raised]

\* a call that raised before it changed anything
Failed(op, nargs, exc) ==
  /\ m_call' = [op |-> op, nargs |-> nargs, before |-> m_set, issued |-> <<>>,
                raised |-> exc]
  /\ UNCHANGED <<m_set, m_directory>>

\* group.members: _Members (group); ad.py calls wrapped, a name it neither
\* defines nor imports
Group_get_members ==
  /\ component = "members"
  /\ m_pc = "none"
  /\ IF m_module = "ad"
     THEN /\ Failed("_Members", 1, "NameError")
          /\ UNCHANGED m_pc
     ELSE /\ m_set' = m_directory
          /\ m_pc' = "idle"
          /\ m_call' = [op |-> "_Members", nargs |-> 1, before |-> {},
                        issued |-> <<>>, raised |-> "None"]
          /\ UNCHANGED m_directory
  /\ UNCHANGED <<m_module, m_depth, exceptMembers>>

_Members_add ==
  /\ component = "members"
  /\ m_pc = "idle"
  /\ \E elem \in Principals : Effected("add", 1, m_set \cup {elem})
  /\ UNCHANGED <<m_module, m_pc, m_depth, exceptMembers>>

_Members_remove ==
  /\ component = "members"
  /\ m_pc = "idle"
  /\ \E elem \in Principals :
       IF elem \in m_set THEN Effected("remove", 1, m_set \ {elem})
       ELSE Failed("remove", 1, "KeyError")
  /\ UNCHANGED <<m_module, m_pc, m_depth, exceptMembers>>

_Members_discard ==
  /\ component = "members"
  /\ m_pc = "idle"
  /\ \E elem \in Principals : Effected("discard", 1, m_set \ {elem})
  /\ UNCHANGED <<m_module, m_pc, m_depth, exceptMembers>>

\* pop () takes whichever member the set gives up
_Members_pop ==
  /\ component = "members"
  /\ m_pc = "idle"
  /\ IF m_set = {} THEN Failed("pop", 0, "KeyError")
     ELSE \E elem \in m_set : Effected("pop", 0, m_set \ {elem})
  /\ UNCHANGED <<m_module, m_pc, m_depth, exceptMembers>>

_Members_clear ==
  /\ component = "members"
  /\ m_pc = "idle"
  /\ Effected("clear", 0, {})
  /\ UNCHANGED <<m_module, m_pc, m_depth, exceptMembers>>

_Members_update ==
  /\ component = "members"
  /\ m_pc = "idle"
  /\ \E others \in OthersArguments : Effected("update", Len(others), set_update(m_set, others))
  /\ UNCHANGED <<m_module, m_pc, m_depth, exceptMembers>>

_Members_intersection_update ==
  /\ component = "members"
  /\ m_pc = "idle"
  /\ \E others \in OthersArguments :
       Effected("intersection_update", Len(others),
                set_intersection_update(m_set, others))
  /\ UNCHANGED <<m_module, m_pc, m_depth, exceptMembers>>

\* difference_update (*others) and symmetric_difference_update (*others):
\* without arguments the loop is empty and _effect runs; with arguments the
\* loop calls the method itself on a generator, one frame deeper
_Members_difference_update ==
  /\ component = "members"
  /\ m_pc = "idle"
  /\ \E op \in {"difference_update", "symmetric_difference_update"},
        others \in OthersArguments :
       IF others = <<>>
       THEN /\ Effected(op, 0, m_set)
            /\ UNCHANGED <<m_pc, m_depth>>
       ELSE /\ m_pc' = op
            /\ m_depth' = 1
            /\ m_call' = [op |-> op, nargs |-> Len(others), before |-> m_set,
                          issued |-> <<>>, raised |-> "running"]
            /\ UNCHANGED <<m_set, m_directory>>
  /\ UNCHANGED <<m_module, exceptMembers>>

\* the frame of difference_update or symmetric_difference_update that runs:
\* its others holds one generator, so it calls the method again; at the
\* recursion limit the interpreter raises RuntimeError, which no frame catches
_Members_recurse ==
  /\ component = "members"
  /\ m_pc \in {"difference_update", "symmetric_difference_update"}
  /\ IF m_depth < RecursionLimit
     THEN /\ m_depth' = m_depth + 1
          /\ UNCHANGED <<m_pc, m_call>>
     ELSE /\ m_depth' = 0
          /\ m_pc' = "idle"
          /\ m_call' = [m_call EXCEPT !.raised = "RuntimeError"]
  /\ UNCHANGED <<m_module, m_set, m_directory, exceptMembers>>

-----------------------------------------------------------------------------
(* Group.walk of active_directory.py, active_directory/base.py and
   active_directory2/adobject.py, and member_of_all of active_directory.py *)

\* the groups of the directory and a user who is a member of the last one
NestedGroups == {"g1", "g2", "g3"}
GroupUser == "u1"

\* the membership graphs: the groups that are members of each group, no
\* group being a member of itself
MembershipGraphs ==
  {member \in [NestedGroups -> SUBSET NestedGroups] :
     \A g \in NestedGroups : g \notin member[g]}

\* the groups among the members of a group, in the order the directory gives
\* them, and the groups an object is a member of (its memberOf)
GroupsIn(member, group) == Enumerated(member[group])
MemberOf(member, obj) ==
  Enumerated(IF obj = GroupUser THEN {"g3"}
             ELSE {g \in NestedGroups : obj \in member[g]})

\* the groups the running call goes through from a frame
Nested(frame) ==
  IF n_fn = "walk" THEN GroupsIn(n_member, frame.self)
  ELSE MemberOf(n_member, frame.self)

\* the frame a call starts with; member_of starts as set (groups)
Frame(fn, member, obj) ==
  [self |-> obj, next |-> 1,
   member_of |-> IF fn = "walk" THEN {}
                 ELSE {MemberOf(member, obj)[i] : i \in 1..Len(MemberOf(member, obj))}]

\* list (group.walk ()) begins: the group's own entry is yielded
Group_walk ==
  /\ component = "groups"
  /\ n_pc = "idle"
  /\ \E group \in NestedGroups :
       /\ n_stack' = <<Frame("walk", n_member, group)>>
       /\ n_yielded' = <<group>>
  /\ n_fn' = "walk"
  /\ n_pc' = "running"
  /\ n_raised' = "None"
  /\ n_result' = {}
  /\ UNCHANGED <<n_member, exceptGroups>>

\* obj.member_of_all () begins
member_of_all ==
  /\ component = "groups"
  /\ n_pc = "idle"
  /\ \E obj \in NestedGroups \cup {GroupUser} :
       n_stack' = <<Frame("member_of_all", n_member, obj)>>
  /\ n_fn' = "member_of_all"
  /\ n_pc' = "running"
  /\ n_raised' = "None"
  /\ n_yielded' = <<>>
  /\ n_result' = {}
  /\ UNCHANGED <<n_member, exceptGroups>>

\* the innermost frame goes on to its next group with a call of the same
\* method, one frame deeper; the interpreter raises RuntimeError at the
\* recursion limit and no frame catches it
GroupDescend ==
  /\ component = "groups"
  /\ n_pc = "running"
  /\ LET top == n_stack[Len(n_stack)]
         groups == Nested(top)
     IN  /\ top.next <= Len(groups)
         /\ IF Len(n_stack) >= RecursionLimit
            THEN /\ n_stack' = <<>>
                 /\ n_pc' = "done"
                 /\ n_raised' = "RuntimeError"
                 /\ UNCHANGED n_yielded
            ELSE /\ n_stack' = Append([n_stack EXCEPT ![Len(n_stack)].next = top.next + 1],
                                      Frame(n_fn, n_member, groups[top.next]))
                 /\ n_yielded' = IF n_fn = "walk"
                                 THEN Append(n_yielded, groups[top.next]) ELSE n_yielded
                 /\ UNCHANGED <<n_pc, n_raised>>
  /\ UNCHANGED <<n_member, n_fn, n_result, exceptGroups>>

\* the innermost frame has gone through its groups and returns: member_of_all
\* hands its set to the caller's member_of.update
GroupReturn ==
  /\ component = "groups"
  /\ n_pc = "running"
  /\ LET top == n_stack[Len(n_stack)]
         rest == SubSeq(n_stack, 1, Len(n_stack) - 1)
     IN  /\ top.next > Len(Nested(top))
         /\ IF rest = <<>>
            THEN /\ n_stack' = <<>>
                 /\ n_pc' = "done"
                 /\ n_result' = top.member_of
            ELSE /\ n_stack' = [rest EXCEPT ![Len(rest)].member_of = @ \cup top.member_of]
                 /\ UNCHANGED <<n_pc, n_result>>
  /\ UNCHANGED <<n_member, n_fn, n_raised, n_yielded, exceptGroups>>

\* the caller is done with the outcome
GroupCallOver ==
  /\ component = "groups"
  /\ n_pc = "done"
  /\ n_pc' = "idle"
  /\ UNCHANGED <<n_member, n_fn, n_stack, n_raised, n_yielded, n_result, exceptGroups>>

-----------------------------------------------------------------------------
(* active_directory2/core.py: query, the generator over the rows of a
   search; ADSimple.query of simple.py and search of ad-from-it-support.py
   have the same try and finally around their loops. AbandonSearch and
   CloseSearchHandle are taken to succeed. *)

\* the most rows a search finds
MaxSearchRows == 3

\* the search handle before ExecuteSearch has given one
NoSearch == [state |-> "none", abandoned |-> 0, closed |-> 0, fetched_closed |-> FALSE]

\* hSearch = directory_search.ExecuteSearch (filter, attributes)
ExecuteSearch == [state |-> "open", abandoned |-> 0, closed |-> 0, fetched_closed |-> FALSE]

\* GetFirstRow, GetNextRow, GetNextColumnName or GetColumn on the handle
Fetched(hSearch) ==
  [hSearch EXCEPT !.fetched_closed = @ \/ hSearch.state = "closed"]

\* a finally clause that leaves the handle as it is
finally_nothing(hSearch) == hSearch

\* the finally clause: AbandonSearch (hSearch), CloseSearchHandle (hSearch)
finally(hSearch) ==
  [hSearch EXCEPT !.state = "closed", !.abandoned = @ + 1, !.closed = @ + 1]

\* query (obj, filter, attributes): the generator is made, nothing of its
\* body has run
core_query ==
  /\ component = "search"
  /\ h_pc \in {"none", "finished"}
  /\ h_pc' = "created"
  /\ h_rows' \in 0..MaxSearchRows
  /\ h_search' = NoSearch
  /\ h_ended' = "no"
  /\ UNCHANGED exceptSearch

\* next () of the consumer: the body runs to the next yield or to its end.
\* The first call executes the search; each call fetches a row and, when there
\* is one, its columns; any of these may raise
core_query_next ==
  /\ component = "search"
  /\ h_pc \in {"created", "suspended"}
  /\ \E outcome \in {"ok", "search_error", "row_error", "column_error"} :
       LET left == IF h_pc = "created" THEN h_rows ELSE h_rows - 1
           hSearch == IF h_pc = "created" THEN ExecuteSearch ELSE h_search
       IN  /\ outcome = "search_error" => h_pc = "created"
           /\ outcome = "column_error" => left > 0
           /\ IF outcome = "search_error"
              THEN /\ h_search' = NoSearch
                   /\ h_pc' = "finished"
                   /\ h_ended' = "error"
                   /\ UNCHANGED h_rows
              ELSE IF outcome = "row_error"
              THEN /\ h_search' = finally(Fetched(hSearch))
                   /\ h_pc' = "finished"
                   /\ h_ended' = "error"
                   /\ UNCHANGED h_rows
              ELSE IF outcome = "column_error"
              THEN /\ h_search' = finally(Fetched(Fetched(hSearch)))
                   /\ h_pc' = "finished"
                   /\ h_ended' = "error"
                   /\ h_rows' = left
              ELSE IF left > 0
              THEN /\ h_search' = Fetched(Fetched(hSearch))
                   /\ h_pc' = "suspended"
                   /\ h_rows' = left
                   /\ UNCHANGED h_ended
              ELSE /\ h_search' = finally(Fetched(hSearch))
                   /\ h_pc' = "finished"
                   /\ h_ended' = "exhausted"
                   /\ h_rows' = 0
  /\ UNCHANGED exceptSearch

\* next () on a generator that has finished: StopIteration, nothing is fetched
core_query_next_finished ==
  /\ component = "search"
  /\ h_pc = "finished"
  /\ h_ended \in {"exhausted", "error", "closed"}
  /\ h_ended' = "stopped"
  /\ UNCHANGED <<h_pc, h_rows, h_search, exceptSearch>>

\* close () of the consumer, or the generator being collected: GeneratorExit
\* is raised at the yield, so the finally clause runs; a generator that has
\* not started just finishes
core_query_close ==
  /\ component = "search"
  /\ h_pc \in {"created", "suspended"}
  /\ h_search' = IF h_pc = "suspended" THEN finally(h_search) ELSE h_search
  /\ h_pc' = "finished"
  /\ h_ended' = "closed"
  /\ UNCHANGED <<h_rows, exceptSearch>>

-----------------------------------------------------------------------------

vars ==
  <<component, timeVars, flagVars, codecVars, excVars, credVars, threadVars,
    factoryVars, openVars, queryVars, adbaseVars, coreVars, moveVars, pathVars,
    walkVars, delegateVars, membersVars, groupsVars, searchVars>>

Components ==
  {"time", "flags", "codec", "registry", "exc", "cred", "threads", "factory",
   "open", "moniker", "query", "adbase", "core",
   "move", "path", "walk", "delegate",
   "members", "groups", "search"}

Init ==
  /\ component \in Components
  /\ t_fn = "none"
  /\ t_ad_time = [HighPart |-> 0, LowPart |-> 0]
  /\ t_result = None
  /\ \E o \in (IF component = "flags" THEN KwargsOrders(GROUP_TYPES)
                ELSE {<<"GLOBAL", "DOMAIN_LOCAL", "LOCAL", "UNIVERSAL", "SECURITY_ENABLED">>}) :
       f_enums = [GROUP_TYPES |-> Enum(GROUP_TYPES, o),
                  USER_ACCOUNT_CONTROL |-> Enum(USER_ACCOUNT_CONTROL, UacOrder)]
  /\ f_enum = "none"
  /\ f_item = None
  /\ f_result = None
  /\ c_converters = [n \in {} |-> <<"None", "None">>]
  /\ c_lookup = "none"
  /\ c_name = "none"
  /\ c_had_name = FALSE
  /\ c_raw = None
  /\ c_converter = "None"
  /\ c_decoded = Unset
  /\ c_encoded = Unset
  /\ e_error = [kind |-> "none", hresult_code |-> 0, additional_info |-> FALSE,
                scode |-> 0, errno |-> 0]
  /\ e_raised = "none"
  /\ cr_cache = [server \in {} |-> <<>>]
  /\ cr_blocks = <<>>
  /\ cr_baseline = [server \in Servers |-> "None"]
  /\ cr_nested = 0
  /\ cr_last = "none"
  /\ cr_got = [server |-> "None", cred |-> "None"]
  /\ th_pc = [t \in Threads |-> "start"]
  /\ th_cred = [t \in Threads |-> None]
  /\ th_cache = [t \in Threads |-> [server \in {} |-> <<>>]]
  /\ th_caches = [t \in Threads |-> [server |-> "None", root_dses |-> {}]]
  /\ th_initialised = [t \in Threads |-> FALSE]
  /\ schemas = [c \in {} |-> open_object("", None)]
  /\ log_stream = <<>>
  /\ th_access = {}
  /\ k_cred = Unset
  /\ k_result = Unset
  /\ o_call = [called |-> FALSE, moniker_server |-> "", cred |-> None,
               result |-> open_object("", None)]
  /\ o_open = [called |-> FALSE, scheme |-> <<>>, host |-> <<>>, dn |-> <<>>,
               parsed |-> [raised |-> "None", scheme |-> <<>>, server |-> <<>>, dn |-> <<>>],
               server_bind |-> FALSE]
  /\ q_pc = "idle"
  /\ q_connection = "None"
  /\ q_conn = "unopened"
  /\ q_rows = 0
  /\ q_yielded = 0
  /\ a_properties = SchemaProperties
  /\ a_dict = [n \in {} |-> None]
  /\ a_log = <<>>
  /\ a_call = [op |-> "none", kwargs |-> [n \in {} |-> None], name |-> <<>>,
               value |-> None, failed |-> "none", dict |-> [n \in {} |-> None]]
  /\ r_caches = [server |-> None,
                 base_monikers |-> [k \in {} |-> <<>>],
                 root_dses |-> [k \in {} |-> <<>>],
                 root_monikers |-> [k \in {} |-> <<>>],
                 root_objs |-> [k \in {} |-> <<>>]]
  /\ r_call = [fn |-> "none", server |-> None, scheme |-> "LDAP:", cred |-> None,
               raised |-> "None", value |-> <<>>, again |-> FALSE,
               before |-> [raised |-> "None", value |-> <<>>]]
  /\ d_parent = [ou1 |-> "root", ou2 |-> "root", u1 |-> "ou1", u2 |-> "ou1"]
  /\ d_rdn = [ou1 |-> "ou=ou1", ou2 |-> "ou=ou2", u1 |-> "cn=u1", u2 |-> "cn=u2"]
  /\ d_call = [op |-> "none", self |-> "root", args |-> <<"None", "None">>,
               child |-> "None", raised |-> "None"]
  /\ p_call = [fn |-> "none", self |-> <<>>, other |-> <<>>,
               result |-> [raised |-> "None", value |-> <<>>]]
  /\ w_parent \in (IF component = "walk" THEN Trees
                   ELSE {[obj \in WalkObjects |-> "top"]})
  /\ w_call = [fn |-> "none", self |-> "top", entries |-> <<>>, flat |-> <<>>]
  /\ g_wrapper \in (IF component = "delegate" THEN Wrappers ELSE {"base"})
  /\ g_com = [n \in DelegateProperties |-> "v1"]
  /\ g_directory = [n \in DelegateProperties |-> "v1"]
  /\ g_delegate_map = [n \in {} |-> ConvertedValue(n, "v1")]
  /\ g_last = "none"
  /\ g_read = [called |-> FALSE, name |-> "displayName", held |-> "v1",
               raised |-> "None", value |-> ConvertedValue("displayName", "v1"),
               after |-> "none"]
  /\ m_module \in (IF component = "members" THEN MembersModules ELSE {"ad"})
  /\ m_directory \in (IF component = "members" THEN SUBSET Principals ELSE {{}})
  /\ m_set = {}
  /\ m_pc = "none"
  /\ m_depth = 0
  /\ m_call = [op |-> "none", nargs |-> 0, before |-> {}, issued |-> <<>>,
               raised |-> "None"]
  /\ n_member \in (IF component = "groups" THEN MembershipGraphs
                   ELSE {[g \in NestedGroups |-> {}]})
  /\ n_fn = "walk"
  /\ n_pc = "idle"
  /\ n_stack = <<>>
  /\ n_raised = "None"
  /\ n_yielded = <<>>
  /\ n_result = {}
  /\ h_pc = "none"
  /\ h_rows = 0
  /\ h_search = NoSearch
  /\ h_ended = "no"

Next ==
  \/ CallAdTimeToDatetime
  \/ CallConvertersAdTimeToDatetime
  \/ CallFileTimeToSystemTime
  \/ CallConvertToFlags
  \/ ADObject__getattr__
  \/ ApplyToAd
  \/ AD_object__getattr__
  \/ ApplyPropertyMapIn
  \/ CallRegisterConverter
  \/ get_converter
  \/ CallWrapped
  \/ CachePush
  \/ Credentials__enter__
  \/ Credentials__exit__
  \/ CacheGet
  \/ \E t \in Threads : ThreadEnter(t)
  \/ \E t \in Threads : AD(t)
  \/ \E t \in Threads : ADBase__init__(t)
  \/ \E t \in Threads : ThreadExit(t)
  \/ CallCredentials
  \/ CallOpenObject
  \/ CallOpenObjectMoniker
  \/ query
  \/ query_next
  \/ query_raise
  \/ query_close
  \/ ADBase_set
  \/ ADBase__setattr__
  \/ Call_base_moniker
  \/ Call_root_dse
  \/ Call_root_moniker
  \/ Call_root_obj
  \/ ADBase_move0
  \/ ADBase_move
  \/ CallPathRelativeTo
  \/ CallRelativeTo
  \/ CallWalk
  \/ CallADBaseWalk
  \/ DelegateRead
  \/ DelegateSetattr
  \/ DelegateSet
  \/ DelegateRefresh
  \/ DirectoryWritten
  \/ Group_get_members
  \/ _Members_add
  \/ _Members_remove
  \/ _Members_discard
  \/ _Members_pop
  \/ _Members_clear
  \/ _Members_update
  \/ _Members_intersection_update
  \/ _Members_difference_update
  \/ _Members_recurse
  \/ Group_walk
  \/ member_of_all
  \/ GroupDescend
  \/ GroupReturn
  \/ GroupCallOver
  \/ core_query
  \/ core_query_next
  \/ core_query_next_finished
  \/ core_query_close

Spec == Init /\ [][Next]_vars

-----------------------------------------------------------------------------
(* Properties of the converters *)

\* C1: for every attribute name or syntax identifier with a registered
\* converter pair, the to-AD converter applied to what the from-AD converter
\* made of a well-formed raw value gives that raw value back.
C1_RoundTrip ==
  (c_encoded.t # "unset" /\ c_raw.t # "none") => PyEq(c_encoded, c_raw)

\* a registered pair has decoded a well-formed value and encoded it again
C1_Witness == c_encoded.t # "unset" /\ c_raw.t # "none"

IsEmptyValue(value) ==
  \/ value.t = "none"
  \/ value.t \in {"list", "str"} /\ value.v = <<>>

\* C2: every registered from-AD converter, by name or by syntax, given None
\* returns None or an empty value and does not raise.
C2_NoneDecodesToEmpty ==
  (/\ c_lookup \in {"ADObject.__getattr__", "_AD_object.__getattr__"}
   /\ c_converter # "None"
   /\ c_raw.t = "none") => IsEmptyValue(c_decoded)

\* a registered from-AD converter has been given None
C2_Witness ==
  /\ c_lookup \in {"ADObject.__getattr__", "_AD_object.__getattr__"}
  /\ c_converter # "None"
  /\ c_raw.t = "none"

\* the keywords an enumeration was declared with
EnumKwargs(name) ==
  IF name = "GROUP_TYPES" THEN GROUP_TYPES ELSE USER_ACCOUNT_CONTROL

\* C3: decoding an integer against a flag enumeration gives exactly the set
\* of the enumeration's names whose bitmask is set in the integer, whatever
\* the order the enumeration's entries were declared or iterated in.
C3_FlagsExact ==
  (f_enum # "none" /\ f_item.t = "int") =>
     PyEq(f_result,
          NameSet({k \in DOMAIN EnumKwargs(f_enum) :
                     BitAnd(i32(Word(f_item.v)), i32(EnumKwargs(f_enum)[k]))}))

\* a flags converter has decoded an integer with some bit of its enumeration
C3_Witness ==
  /\ f_enum # "none"
  /\ f_item.t = "int"
  /\ f_result.t = "set"
  /\ f_result.v # {}

\* the converter the fallback order asks for: by name, else by syntax, else
\* the identity
ExpectedConverter ==
  CASE c_lookup = "ADObject.__getattr__" ->
         IF get_converters(c_name)[1] # "None" THEN get_converters(c_name)[1]
         ELSE get_type_converters(AttributeSyntax[c_name])[1]
    [] c_lookup = "get_converter" ->
         IF c_had_name THEN c_converters[c_name][1]
         ELSE IF AttributeSyntax[c_name] \in DOMAIN TYPE_CONVERTERS
         THEN TYPE_CONVERTERS[AttributeSyntax[c_name]]
         ELSE "identity"
    [] OTHER -> c_converter

\* C4: the converter used for an attribute is the one registered for its
\* name if there is one, else the one registered for its syntax identifier
\* if there is one, else the identity.
C4_FallbackOrder ==
  c_lookup \in {"ADObject.__getattr__", "get_converter"} =>
     c_converter = ExpectedConverter

\* a lookup was made for an attribute with no converter under its name but
\* one under its syntax
C4_Witness ==
  /\ c_lookup \in {"ADObject.__getattr__", "get_converter"}
  /\ ~c_had_name
  /\ AttributeSyntax[c_name] \in DOMAIN TYPE_CONVERTERS

\* 1601-01-01 plus the ticks of the 64-bit value whose upper 32 bits are
\* HighPart and whose lower 32 bits are LowPart, to the microsecond
TicksDatetime(ad_time) ==
  Datetime(DivSmall(ShiftAdd(signed_to_unsigned(ad_time.HighPart),
                             signed_to_unsigned(ad_time.LowPart)), 10))

\* C5: (HighPart, LowPart) decodes to 1601-01-01 00:00:00 plus N ticks of
\* 100 ns, N the 64-bit value with HighPart above LowPart, for every pair of
\* 32-bit parts.
C5_EpochPlusTicks ==
  t_fn # "none" => PyEq(t_result, TicksDatetime(t_ad_time))

\* a decoder was given a pair whose LowPart has bit 31 set
C5_Witness == t_fn # "none" /\ t_ad_time.LowPart < 0

\* C6: the timestamp decoder is total: for every 64-bit value, the largest
\* positive one 0x7FFFFFFFFFFFFFFF included, it returns a date-time or the
\* empty result and never raises.
C6_DecoderTotal ==
  t_fn # "none" => t_result.t \in {"datetime", "none"}

\* a decoder was given 0x7FFFFFFFFFFFFFFF
C6_Witness ==
  /\ t_fn # "none"
  /\ t_ad_time = [HighPart |-> 2147483647, LowPart |-> -1]

\* the hexadecimal digits of a string, in order
RECURSIVE DigitsOf(_, _)
DigitsOf(text, i) ==
  IF i = 0 THEN <<>>
  ELSE IF \E d \in 1..16 : HexDigits[d] = text[i]
  THEN Append(DigitsOf(text, i - 1), text[i])
  ELSE DigitsOf(text, i - 1)

\* braces around groups of 8, 4, 4, 4 and 12 hexadecimal digits with
\* hyphens between them, two digits for each octet
IsCanonicalGuid(value, octets) ==
  /\ value.t = "str"
  /\ Len(value.v) = 38
  /\ value.v[1] = "{"
  /\ value.v[38] = "}"
  /\ \A i \in {10, 15, 20, 25} : value.v[i] = "-"
  /\ \A i \in (2..37) \ {10, 15, 20, 25} : \E d \in 1..16 : HexDigits[d] = value.v[i]
  /\ DigitsOf(value.v, 38) = Join02x(octets, 16)

\* C7: a 16-byte GUID decodes to its canonical string form.
C7_GuidCanonical ==
  (/\ c_lookup \in {"ADObject.__getattr__", "_AD_object.__getattr__"}
   /\ c_converter = "convert_to_guid"
   /\ c_raw.t = "bytes"
   /\ Len(c_raw.v) = 16) => IsCanonicalGuid(c_decoded, c_raw)

\* a GUID converter has decoded 16 octets
C7_Witness ==
  /\ c_lookup \in {"ADObject.__getattr__", "_AD_object.__getattr__"}
  /\ c_converter = "convert_to_guid"
  /\ c_raw.t = "bytes"
  /\ Len(c_raw.v) = 16
  /\ c_decoded.t = "str"

\* the native code an error carries: the HRESULT if the table knows it, else
\* the scode of its additional information
ErrorCode(err) ==
  IF err.kind # "com_error" THEN Word(err.errno)
  ELSE IF signed_to_unsigned(err.hresult_code) \in KnownCodes \/ ~err.additional_info
  THEN signed_to_unsigned(err.hresult_code)
  ELSE signed_to_unsigned(err.scode)

\* the kinds of error the table is to tell apart, with their codes
ErrorKinds ==
  [object_not_found |-> {ERROR_DS_NO_SUCH_OBJECT},
   already_exists |-> {ERROR_OBJECT_ALREADY_EXISTS},
   member_already_in_group |-> {ERROR_MEMBER_IN_ALIAS},
   member_not_in_group |-> {ERROR_MEMBER_NOT_IN_ALIAS},
   bad_path |-> {E_ADS_BAD_PATHNAME},
   property_not_found |-> {E_ADS_PROPERTY_NOT_FOUND, E_ADS_PROPERTY_NOT_SUPPORTED,
                           E_ADS_PROPERTY_INVALID},
   not_implemented |-> {ERROR_NOT_IMPLEMENTED}]

\* the exception class raised for a com_error carrying code
RaisedFor(code) ==
  wrapped([kind |-> "com_error", hresult_code |-> i32(code),
           additional_info |-> FALSE, scode |-> 0, errno |-> 0])

\* C8: a native error is translated into the exception kind of its code, the
\* seven kinds being told apart, and a code not in the table raises the
\* default ActiveDirectoryError.
C8_ErrorTranslation ==
  e_raised # "none" =>
    IF \E k \in DOMAIN ErrorKinds : ErrorCode(e_error) \in ErrorKinds[k]
    THEN /\ e_raised # "ActiveDirectoryError"
         /\ \A k \in DOMAIN ErrorKinds :
              ErrorCode(e_error) \notin ErrorKinds[k] =>
                \A c \in ErrorKinds[k] : RaisedFor(c) # e_raised
    ELSE e_raised = "ActiveDirectoryError"

\* a wrapped call raised a com_error whose code is of one of the seven kinds
C8_Witness ==
  /\ e_raised # "none"
  /\ e_error.kind = "com_error"
  /\ \E k \in DOMAIN ErrorKinds : ErrorCode(e_error) \in ErrorKinds[k]

\* the innermost open block of a server, if one is open
InnermostFor(server) ==
  LET open == SelectSeq(cr_blocks, LAMBDA cred : CredentialsServer[cred] = server)
  IN  IF open # <<>> THEN open[Len(open)] ELSE "None"

\* C9: the cache is a stack per server: inside with blocks get (server)
\* returns the innermost entered credentials of that server, and once a
\* properly nested sequence of blocks has been left get (server) returns for
\* every server what it returned before the outermost block was entered.
C9_StackPerServer ==
  /\ \A server \in Servers :
       InnermostFor(server) # "None" => get(cr_cache, server) = InnermostFor(server)
  /\ \A server \in Servers :
       InnermostFor(server) = "None" /\ cr_last \in {"enter", "exit"} =>
         get(cr_cache, server) = cr_baseline[server]

\* blocks nested two deep or more over a server that already had credentials
\* pushed have all been left
C9_Witness ==
  /\ cr_blocks = <<>>
  /\ cr_last = "exit"
  /\ cr_nested >= 2
  /\ \E server \in Servers : cr_baseline[server] # "None"

\* C10: threads that each run a search under their own credentials share no
\* mutable state other than the credential caches: no structure of a module
\* or class that one thread's operations write is read or written by
\* another thread's.
C10_NoSharedMutableState ==
  \A a, b \in th_access :
    (/\ a.thread # b.thread
     /\ a.structure = b.structure
     /\ a.mode = "write") => a.structure.name = "credentials.local"

\* two threads have each gone through ad.AD under credentials of their own
C10_Witness ==
  \A t \in Threads : th_pc[t] \in {"died", "done"} /\ th_initialised[t]

-----------------------------------------------------------------------------
(* Properties of core.open_object and of the credentials factory *)

\* the ident of the Credentials object the docstring of open_object has it
\* authenticate with: the cred passed, else the innermost cached one of the
\* moniker's server, else Passthrough
ExpectedCredentials(call) ==
  LET given == credentials(call.cred)
      server == IF call.moniker_server = "" THEN "None" ELSE call.moniker_server
  IN  IF given.t = "Credentials" THEN given.v.ident
      ELSE IF get(cr_cache, server) # "None" THEN get(cr_cache, server)
      ELSE "Passthrough"

\* C11: open_object authenticates with the credentials passed when any are
\* given, otherwise with the ones on top of the cache for the moniker's
\* server if there are any, otherwise with passthrough authentication
C11_OpenObjectCredentials ==
  o_call.called =>
    /\ o_call.result.raised = "None"
    /\ o_call.result.cred.v.ident = ExpectedCredentials(o_call)

\* an open_object call without cred while the cache holds credentials for
\* the server of the moniker
C11_Witness ==
  /\ o_call.called
  /\ o_call.cred.t = "none"
  /\ o_call.moniker_server = "dc1"
  /\ get(cr_cache, "dc1") = "bob"

\* C11 for the calls that pass credentials
C11_ExplicitCredentials ==
  (o_call.called /\ o_call.cred.t # "none") =>
    /\ o_call.result.raised = "None"
    /\ o_call.result.cred.v.ident = ExpectedCredentials(o_call)

\* C12: credentials (x) is None for None, x itself for a Credentials object,
\* a new Credentials built from x for a (username, password[, server])
\* tuple, and raises InvalidCredentialsError for every other value
C12_CredentialsFactory ==
  k_result.t # "unset" =>
    IF k_cred.t = "none" THEN k_result.t = "none"
    ELSE IF k_cred.t = "Credentials"
    THEN k_result.t = "Credentials" /\ k_result.v.ident = k_cred.v.ident
    ELSE IF k_cred.t = "tuple" /\ Len(k_cred.v) \in {2, 3}
    THEN /\ k_result.t = "Credentials"
         /\ k_result.v.ident = "new"
         /\ PyEq(k_result.v.username, k_cred.v[1])
         /\ PyEq(k_result.v.password, k_cred.v[2])
         /\ PyEq(k_result.v.server, IF Len(k_cred.v) = 3 THEN k_cred.v[3] ELSE None)
    ELSE IsRaise(k_result) /\ k_result.v = "InvalidCredentialsError"

\* credentials () handed a 4-element tuple
C12_Witness ==
  /\ k_result.t # "unset"
  /\ k_cred.t = "tuple"
  /\ Len(k_cred.v) = 4

\* C12 for everything but 4-element tuples and strings
C12_OtherValues ==
  (k_result.t # "unset" /\ ~(k_cred.t = "tuple" /\ Len(k_cred.v) = 4) /\ k_cred.t # "str")
    => C12_CredentialsFactory

-----------------------------------------------------------------------------
(* Properties of query *)

\* the iteration over the results has ended
QueryEnded == q_pc \in {"exhausted", "abandoned", "raised"}

\* C13: a connection that query created itself is closed once the iteration
\* has ended, by exhaustion, by the caller abandoning it or by an error while
\* fetching; a connection the caller supplied is never closed by query
C13_ConnectionClosed ==
  /\ (QueryEnded /\ q_connection = "None" /\ q_conn # "unopened") => q_conn = "closed"
  /\ q_connection = "supplied" => q_conn = "open"

\* an iteration over an ad-hoc connection abandoned after its first record
C13_Witness ==
  /\ q_pc = "abandoned"
  /\ q_connection = "None"
  /\ q_yielded = 1
  /\ q_rows > 1

\* C13 for iterations that run to exhaustion and for supplied connections
C13_ClosedOnExhaustion ==
  /\ (q_pc = "exhausted" /\ q_connection = "None") => q_conn = "closed"
  /\ q_connection = "supplied" => q_conn = "open"

-----------------------------------------------------------------------------
(* Properties of the attribute writes of ADBase *)

\* the positions of a_log that hold a write, and those that hold a SetInfo
WritesOf(log) == {i \in 1..Len(log) : log[i].method \in {"Put", "PutEx"}}
CommitsOf(log) == {i \in 1..Len(log) : log[i].method = "SetInfo"}

\* the call that writes value to the property cache under name
IsWriteOf(call, name, value) ==
  /\ call.name = name
  /\ IF value.t = "none"
     THEN call.method = "PutEx" /\ call.control = "CLEAR"
     ELSE call.method = "Put" /\ PyEq(call.value, value)

\* C14: set (**kwargs) writes every given attribute to the property cache
\* (Put, or PutEx with CLEAR for None) before committing, and commits with
\* exactly one SetInfo issued after the last write; if a write fails no
\* SetInfo is issued
C14_SetCommitsOnce ==
  a_call.op = "set" =>
    /\ a_call.failed = "write" => CommitsOf(a_log) = {}
    /\ a_call.failed # "write" =>
         /\ CommitsOf(a_log) = {Len(a_log)}
         /\ Cardinality(WritesOf(a_log)) = Cardinality(DOMAIN a_call.kwargs)
         /\ \A name \in DOMAIN a_call.kwargs :
              \E i \in WritesOf(a_log) : IsWriteOf(a_log[i], name, a_call.kwargs[name])

\* a set of two attributes, one of them cleared, that went through
C14_Witness ==
  /\ a_call.op = "set"
  /\ a_call.failed = "none"
  /\ DOMAIN a_call.kwargs = {<<"s", "n">>, <<"c", "n">>}
  /\ a_call.kwargs[<<"s", "n">>].t = "none"
  /\ a_call.kwargs[<<"c", "n">>].t = "str"

\* a set whose second write failed
C14_WitnessFailed ==
  /\ a_call.op = "set"
  /\ a_call.failed = "write"
  /\ Len(a_log) = 2

\* the name with its trailing underscores stripped and every other
\* underscore turned into a hyphen
Hyphenated(name) ==
  LET ends == {n \in 0..Len(name) : (n = 0 \/ name[n] # "_") /\
                                     \A i \in (n + 1)..Len(name) : name[i] = "_"}
      n == CHOOSE n \in ends : TRUE
  IN  [i \in 1..n |-> IF name[i] = "_" THEN "-" ELSE name[i]]

\* C15: obj.name = value writes to the directory (Put then SetInfo, or PutEx
\* with CLEAR then SetInfo for None) exactly when the name, underscores
\* turned into hyphens and trailing underscores stripped, is one of the
\* schema properties; for any other name it only sets a local attribute
\* and issues no directory write
C15_SetattrWritesSchemaProperties ==
  (a_call.op = "setattr" /\ a_call.failed = "none") =>
    IF Hyphenated(a_call.name) \in a_properties
    THEN /\ Len(a_log) = 2
         /\ IsWriteOf(a_log[1], Hyphenated(a_call.name), a_call.value)
         /\ a_log[2].method = "SetInfo"
         /\ a_dict = a_call.dict
    ELSE /\ a_log = <<>>
         /\ a_call.name \in DOMAIN a_dict
         /\ PyEq(a_dict[a_call.name], a_call.value)
         /\ \A n \in DOMAIN a_call.dict :
              n # a_call.name => n \in DOMAIN a_dict /\ PyEq(a_dict[n], a_call.dict[n])

\* an assignment to a name with underscores that is a schema property once
\* they are turned into hyphens
C15_Witness ==
  /\ a_call.op = "setattr"
  /\ a_call.failed = "none"
  /\ a_call.name = <<"a", "_", "b", "_", "_">>
  /\ a_call.value.t = "none"
  /\ Len(a_log) = 2

\* an assignment to a name that is no schema property
C15_WitnessLocal ==
  /\ a_call.op = "setattr"
  /\ a_call.name = <<"x", "_">>
  /\ <<"x", "_">> \in DOMAIN a_dict

-----------------------------------------------------------------------------
(* Properties of the cached functions of core *)

\* C16: for every server and scheme the object root_obj (server, scheme,
\* cred) returns has the ADsPath root_moniker (server, scheme) gives for the
\* same server and scheme, whatever root_obj calls were made before it in
\* the thread
C16_RootObjPath ==
  (r_call.fn = "root_obj" /\ r_call.raised = "None") =>
    r_call.value.ADsPath = root_moniker(r_caches, r_call.server, r_call.scheme).value

\* root_obj has returned the object of a GC: root
C16_Witness ==
  /\ r_call.fn = "root_obj"
  /\ r_call.raised = "None"
  /\ r_call.scheme = "GC:"
  /\ r_call.value.ADsPath = <<"GC:", "//", "a", "/", "DC=example,DC=local">>

\* C16 with the calls that raise counted against it
C16_RootObjReturns ==
  r_call.fn = "root_obj" => r_call.raised = "None"

\* C16 for the first root_obj call made for a server in the thread
C16_FirstCallPath ==
  [][(/\ r_call'.fn = "root_obj"
      /\ r_call'.raised = "None"
      /\ r_caches.root_objs # r_caches'.root_objs)
       => r_call'.value.ADsPath =
            root_moniker(r_caches', r_call'.server, r_call'.scheme).value]_vars

\* C17: two calls of _base_moniker, root_dse, root_moniker or root_obj with
\* the same arguments in the same thread return the identical cached object
C17_SameArgumentsSameObject ==
  r_call.again =>
    /\ r_call.before.raised = "None"
    /\ r_call.raised = "None"
    /\ r_call.value = r_call.before.value

\* root_dse called twice running with the same server and scheme
C17_Witness ==
  /\ r_call.again
  /\ r_call.fn = "root_dse"
  /\ r_call.server.t = "str"
  /\ r_call.raised = "None"

\* C17 for the calls that name their server, root_obj being given credentials
C17_NamedServer ==
  (/\ r_call.again
   /\ r_call.server.t # "none"
   /\ (r_call.fn = "root_obj" => r_call.cred.t # "none"))
    => /\ r_call.raised = "None"
       /\ r_call.before.raised = "None"
       /\ r_call.value = r_call.before.value

\* C17 for the calls that return
C17_ReturnedTwice ==
  (r_call.again /\ r_call.raised = "None" /\ r_call.before.raised = "None")
    => r_call.value = r_call.before.value

-----------------------------------------------------------------------------
(* Properties of the moves *)

\* a call made as container.move (rdn, other_container) with the rdn of a
\* child of the container
MovedChild(call) ==
  /\ call.self \in DirContainers
  /\ call.args[1] \in Rdns
  /\ call.args[2] \in DirContainers
  /\ call.child \in DirObjects

\* C18: container.move (rdn, other_container) moves the child named rdn out
\* of the container into other_container, and the object then found under
\* other_container has the objectGuid the child had before
C18_MoveKeepsIdentity ==
  (d_call.op = "move" /\ MovedChild(d_call) /\ d_call.args[2] # d_call.self) =>
    /\ d_call.raised = "None"
    /\ d_parent[d_call.child] = d_call.args[2]
    /\ d_rdn[d_call.child] = d_call.args[1]

\* ou1.move ("cn=u1", ou2) has been called
C18_Witness ==
  /\ d_call.op = "move"
  /\ d_call.self = "ou1"
  /\ d_call.args = <<"cn=u1", "ou2">>
  /\ d_call.child = "u1"

\* C18 for move0: the child is under the other container afterwards unless
\* MoveHere refused the move
C18_Move0KeepsIdentity ==
  (/\ d_call.op = "move0"
   /\ MovedChild(d_call)
   /\ d_call.args[2] # d_call.self
   /\ d_call.raised = "None")
    => /\ d_parent[d_call.child] = d_call.args[2]
       /\ d_rdn[d_call.child] = d_call.args[1]

\* container.move (rdn, other_container) never moves anything
C18_MoveRaises ==
  (d_call.op = "move" /\ MovedChild(d_call)) => d_call.raised = "AttributeError"

-----------------------------------------------------------------------------
(* Properties of relative_to *)

\* other is a trailing sub-path of self
IsTrailingSubPath(other, self) ==
  /\ Len(other) <= Len(self)
  /\ \A i \in 1..Len(other) : other[i] = self[Len(self) - Len(other) + i]

\* the too-short and the disjoint error of each relative_to
TooShortError(fn) == IF fn = "Path.relative_to" THEN "PathTooShortError" ELSE "ShorterError"
DisjointError(fn) == IF fn = "Path.relative_to" THEN "PathDisjointError" ELSE "DisjointError"

\* C20: relative_to (self, other) returns the leading elements p with p
\* followed by other equal to self whenever other is a trailing sub-path of
\* self (the empty path when they are equal), raises the too-short error
\* when self has fewer elements than other, and the disjoint error when self
\* is at least as long and other is no trailing sub-path of it
C20_RelativeTo ==
  p_call.fn # "none" =>
    IF Len(p_call.self) < Len(p_call.other)
    THEN p_call.result.raised = TooShortError(p_call.fn)
    ELSE IF IsTrailingSubPath(p_call.other, p_call.self)
    THEN /\ p_call.result.raised = "None"
         /\ p_call.result.value \o p_call.other = p_call.self
    ELSE p_call.result.raised = DisjointError(p_call.fn)

\* a path taken relative to a proper trailing sub-path of two elements
C20_Witness ==
  /\ p_call.fn = "Path.relative_to"
  /\ p_call.self = <<"ou=y", "dc=x", "dc=x">>
  /\ p_call.other = <<"dc=x", "dc=x">>
  /\ p_call.result.value = <<"ou=y">>

\* C20 for Path.relative_to and an other that is not empty
C20_PathNonEmptyOther ==
  (p_call.fn = "Path.relative_to" /\ p_call.other # <<>>) => C20_RelativeTo

\* C20 for the relative_to of scrap/t.py where self is no shorter than a
\* non-empty other
C20_ScrapNoShorter ==
  (/\ p_call.fn = "relative_to"
   /\ p_call.other # <<>>
   /\ Len(p_call.self) >= Len(p_call.other)) => C20_RelativeTo

-----------------------------------------------------------------------------
(* Properties of walk and flat *)

\* obj is the container itself or below it
RECURSIVE InSubtree(_, _, _)
InSubtree(parent, container, obj) ==
  \/ obj = container
  \/ obj # "top" /\ InSubtree(parent, container, parent[obj])

\* the objects a sequence holds
Range(s) == {s[i] : i \in 1..Len(s)}

\* no object is held twice
NoRepeats(s) == \A i, j \in 1..Len(s) : s[i] = s[j] => i = j

\* C19: walk yields exactly one entry (container, child containers, child
\* items) for each container of the subtree, the entry of a container before
\* the entry of any of its descendants, and flat yields every object of the
\* subtree that is not a container exactly once
C19_WalkVisitsEveryContainerOnce ==
  w_call.fn # "none" =>
    LET entries == w_call.entries
        parent == w_parent
        visited == [i \in 1..Len(entries) |-> entries[i].container]
    IN  /\ NoRepeats(visited)
        /\ Range(visited) = {c \in WalkContainers \cup {"top"} :
                               InSubtree(parent, w_call.self, c)}
        /\ \A i \in 1..Len(entries) :
             /\ NoRepeats(entries[i].containers)
             /\ NoRepeats(entries[i].items)
             /\ Range(entries[i].containers) =
                  {c \in WalkContainers : parent[c] = visited[i]}
             /\ Range(entries[i].items) =
                  {o \in WalkItems : parent[o] = visited[i]}
        /\ \A i, j \in 1..Len(entries) :
             (i # j /\ InSubtree(parent, visited[i], visited[j])) => i < j
        /\ NoRepeats(w_call.flat)
        /\ Range(w_call.flat) = {o \in WalkItems : InSubtree(parent, w_call.self, o)}

\* a walk over containers nested three deep, with an item at the bottom and
\* one at the top
C19_Witness ==
  /\ w_call.fn = "walk"
  /\ w_call.self = "top"
  /\ w_parent["c1"] = "top"
  /\ w_parent["c2"] = "c1"
  /\ w_parent["c3"] = "c2"
  /\ w_parent["i1"] = "c3"
  /\ w_parent["i2"] = "top"
  /\ Len(w_call.entries) = 4
  /\ Len(w_call.flat) = 2

\* the same walk made by active_directory2, whose entries carry the level
C19_WitnessADBase ==
  /\ w_call.fn = "ADBase.walk"
  /\ w_call.self = "c1"
  /\ w_parent["c2"] = "c1"
  /\ w_parent["c3"] = "c2"
  /\ w_parent["i1"] = "c3"
  /\ Len(w_call.entries) = 3
  /\ w_call.entries[3].level = 2

-----------------------------------------------------------------------------
(* Properties of _base_moniker *)

\* the moniker the scheme and the server passed make up
ExpectedBaseMoniker(server, scheme) ==
  IF server.t = "none" THEN <<scheme, "//">>
  ELSE <<scheme, "//">> \o server.v \o <<"/">>

\* C21: in any sequence of calls _base_moniker (server, scheme) returns
\* scheme + "//" + server + "/" when a server is passed and scheme + "//"
\* when none is passed, whatever servers the earlier calls passed
C21_BaseMoniker ==
  (/\ r_call.fn = "_base_moniker"
   /\ (r_call.server.t = "none" \/ rstrip(r_call.server.v, "/") = r_call.server.v))
    => /\ r_call.raised = "None"
       /\ r_call.value = ExpectedBaseMoniker(r_call.server, r_call.scheme)

\* _base_moniker called without a server after a call that passed one
C21_Witness ==
  /\ r_call.fn = "_base_moniker"
  /\ r_call.server.t = "none"
  /\ r_caches.server.t = "str"
  /\ r_call.raised = "None"

\* _base_moniker called without a server before any call passed one
C21_WitnessFirstCall ==
  /\ r_call.fn = "_base_moniker"
  /\ r_call.server.t = "none"
  /\ r_caches.server.t = "none"
  /\ r_call.raised = "AttributeError"

\* C21 for the calls that pass a server
C21_ServerPassed ==
  r_call.server.t # "none" => C21_BaseMoniker

\* without a server _base_moniker raises until a server has been passed, and
\* from then on returns the moniker of the last server passed
C21_ServerRemembered ==
  (r_call.fn = "_base_moniker" /\ r_call.server.t = "none") =>
    IF r_caches.server.t = "none" THEN r_call.raised = "AttributeError"
    ELSE r_call.value = <<r_call.scheme, "//">> \o rstrip(r_caches.server.v, "/") \o <<"/">>

-----------------------------------------------------------------------------
(* Properties of the server binding *)

\* C22: open_object adds SERVER_BIND exactly when the moniker is
\* server-based, of the form scheme://server/dn with a server that may be a
\* dotted host name, and never when the moniker names no server
C22_ServerBind ==
  o_open.called => (o_open.server_bind <=> o_open.host # <<>>)

\* a moniker with a plain server name opened with SERVER_BIND
C22_Witness ==
  /\ o_open.called
  /\ o_open.host = <<"d", "c", "1">>
  /\ o_open.dn = <<"o", "=", "x">>
  /\ o_open.server_bind

\* a moniker with a dotted host name opened
C22_WitnessDotted ==
  /\ o_open.called
  /\ o_open.host = <<"d", "c", ".", "x">>
  /\ ~o_open.server_bind

\* C22 for the hosts made of letters, digits, - and _ alone, and for the
\* monikers without a host
C22_PlainHosts ==
  (o_open.called /\ \A i \in 1..Len(o_open.host) : o_open.host[i] \in ServerClass)
    => (o_open.server_bind <=> o_open.host # <<>>)

\* the dn parsed from a moniker is what follows the server, its slashes escaped
C22_ParsedDn ==
  (o_open.called /\ o_open.server_bind) =>
    /\ o_open.parsed.server = o_open.host \o <<"/">>
    /\ o_open.parsed.dn = escaped_moniker(o_open.dn)

-----------------------------------------------------------------------------
(* Properties of the predefined credentials *)

\* the credentials are of the type, name no server and carry the flag
IsPredefined(cred, type, flag) ==
  /\ cred.t = "Credentials"
  /\ PyEq(cred.v.type, PyInt(type))
  /\ cred.v.server.t = "none"
  /\ cred.v.authentication_type = flag

\* C23: the predefined Anonymous credentials have type ANONYMOUS, no server
\* and the NO_AUTHENTICATION flag; the predefined Passthrough credentials
\* have type PASSTHROUGH, no server and the SECURE_AUTHENTICATION flag
C23_PredefinedCredentials ==
  /\ (k_cred.t = "Credentials" /\ k_cred.v.ident = "Anonymous")
       => IsPredefined(k_result, ANONYMOUS, "NO_AUTHENTICATION")
  /\ (k_cred.t = "Credentials" /\ k_cred.v.ident = "Passthrough")
       => IsPredefined(k_result, PASSTHROUGH, "SECURE_AUTHENTICATION")

\* credentials.Anonymous handed to credentials () and returned by it
C23_Witness ==
  /\ k_cred.t = "Credentials"
  /\ k_cred.v.ident = "Anonymous"
  /\ k_result = Anonymous

\* Anonymous and Passthrough of active_directory2 hold their type as the
\* server, are of type SIMPLE and both carry SECURE_AUTHENTICATION
C23_TypeTakenAsServer ==
  (k_cred.t = "Credentials" /\ k_cred.v.ident \in {"Anonymous", "Passthrough"}) =>
    /\ PyEq(k_result.v.type, PyInt(SIMPLE))
    /\ PyEq(k_result.v.server,
            PyInt(IF k_cred.v.ident = "Anonymous" THEN ANONYMOUS ELSE PASSTHROUGH))
    /\ k_result.v.authentication_type = "SECURE_AUTHENTICATION"

\* C23 for Anonymous and Passthrough of active_directory
C23_ActiveDirectory ==
  k_cred.t = "Credentials" =>
    /\ IsPredefined(ad_Anonymous, ANONYMOUS, "NO_AUTHENTICATION")
    /\ IsPredefined(ad_Passthrough, PASSTHROUGH, "SECURE_AUTHENTICATION")

-----------------------------------------------------------------------------
(* Properties of _delegate_map *)

\* C24: after any sequence of reads, assignments, set () and refresh ()
\* calls, reading a property returns the conversion of the value the
\* underlying directory object holds for it at the time of the read
C24_ReadsCurrentValue ==
  g_read.called =>
    /\ g_read.raised = "None"
    /\ g_read.value = ConvertedValue(g_read.name, g_read.held)

\* a property read right after a set () that changed its value
C24_Witness ==
  /\ g_read.called
  /\ g_read.after = "set"
  /\ g_read.held = "v2"
  /\ g_read.raised = "None"

\* a read through ADBase of active_directory/active_directory.py that returns
\* the value cached before a set ()
C24_WitnessStale ==
  /\ g_wrapper = "active_directory"
  /\ g_read.called
  /\ g_read.after = "set"
  /\ g_read.held = "v2"
  /\ g_read.value = ConvertedValue(g_read.name, "v1")

\* every read through ADBase of base.py raises NameError
C24_BaseRaises ==
  (g_wrapper = "base" /\ g_read.called) => g_read.raised = "NameError"

\* right after an assignment through ADBase of
\* active_directory/active_directory.py the map lacks a property
C24_AssignmentInvalidates ==
  (g_wrapper = "active_directory" /\ g_last = "setattr") =>
    \E n \in DelegateProperties : n \notin DOMAIN g_delegate_map

-----------------------------------------------------------------------------
(* Properties of _Members *)

\* the calls that change the set and then run _effect
MembersOps ==
  {"add", "remove", "discard", "pop", "clear", "update", "intersection_update"}

\* C25: after add, remove, discard, pop, clear, update and
\* intersection_update calls that return without error the directory group
\* holds what the set holds, and the call issued Add once for each element
\* the set gained, Remove once for each it lost, and nothing else
C25_DirectoryFollowsSet ==
  (m_call.op \in MembersOps /\ m_call.raised = "None") =>
    /\ m_directory = m_set
    /\ {m_call.issued[i].member : i \in {i \in 1..Len(m_call.issued) :
                                           m_call.issued[i].op = "Add"}}
         = m_set \ m_call.before
    /\ {m_call.issued[i].member : i \in {i \in 1..Len(m_call.issued) :
                                           m_call.issued[i].op = "Remove"}}
         = m_call.before \ m_set
    /\ Len(m_call.issued) =
         Cardinality(m_set \ m_call.before) + Cardinality(m_call.before \ m_set)

\* an intersection_update that returned and made the set lose two members
C25_Witness ==
  /\ m_call.op = "intersection_update"
  /\ m_call.raised = "None"
  /\ Cardinality(m_call.before \ m_set) = 2
  /\ m_set # {}

\* an update that returned and made the set gain a member
C25_WitnessGain ==
  /\ m_call.op = "update"
  /\ m_call.raised = "None"
  /\ Cardinality(m_set \ m_call.before) = 1
  /\ m_call.before # {}

\* in adobject.py every call that reaches _effect raises AttributeError, and
\* in ad.py the set is never built
C25_ModulesThatRaise ==
  /\ (m_module = "adobject" /\ m_call.op \in MembersOps)
       => m_call.raised \in {"AttributeError", "KeyError"}
  /\ m_module = "ad" => m_pc = "none"

\* the directory group holds what the set holds whether the call raised or not
C25_DirectoryEqualsSet ==
  m_pc # "none" => m_directory = m_set

-----------------------------------------------------------------------------
(* Properties of difference_update and symmetric_difference_update *)

\* C26: difference_update (*others) and symmetric_difference_update (*others)
\* return normally for every set and every non-empty list of arguments
C26_DifferenceUpdateReturns ==
  (/\ m_call.op \in {"difference_update", "symmetric_difference_update"}
   /\ m_call.nargs > 0
   /\ m_pc = "idle")
    => m_call.raised = "None"

\* a difference_update with arguments that has ended
C26_Witness ==
  /\ m_call.op = "difference_update"
  /\ m_call.nargs = 2
  /\ m_pc = "idle"
  /\ m_call.raised = "RuntimeError"
  /\ m_set # {}

\* a difference_update or symmetric_difference_update that is given arguments
\* never changes the set nor issues anything to the directory
C26_NothingDone ==
  (/\ m_call.op \in {"difference_update", "symmetric_difference_update"}
   /\ m_call.raised \in {"running", "RuntimeError"})
    => /\ m_set = m_call.before
       /\ m_call.issued = <<>>

\* every difference_update and symmetric_difference_update that is given
\* arguments ends in RuntimeError
C26_AlwaysRecursionError ==
  (/\ m_call.op \in {"difference_update", "symmetric_difference_update"}
   /\ m_call.nargs > 0
   /\ m_pc = "idle")
    => m_call.raised = "RuntimeError"

-----------------------------------------------------------------------------
(* Properties of Group.walk and member_of_all *)

\* the groups reached from a group through the members in at most n steps
RECURSIVE ReachedFrom(_, _, _)
ReachedFrom(member, groups, n) ==
  IF n = 0 THEN groups
  ELSE ReachedFrom(member, groups \cup UNION {member[g] : g \in groups}, n - 1)

\* groups that are directly or indirectly members of each other
HasCycle(member) ==
  \E g \in NestedGroups :
    g \in ReachedFrom(member, member[g], Cardinality(NestedGroups))

\* C27: Group.walk () and member_of_all () terminate, returning normally, for
\* every finite membership graph, graphs in which groups are members of each
\* other included
C27_GroupWalkTerminates ==
  n_pc = "done" => n_raised = "None"

\* a walk that has ended over groups that are members of each other
C27_Witness ==
  /\ n_pc = "done"
  /\ n_fn = "walk"
  /\ "g2" \in n_member["g1"]
  /\ "g1" \in n_member["g2"]
  /\ Len(n_yielded) >= RecursionLimit

\* a member_of_all that returned the groups above a user
C27_WitnessMemberOfAll ==
  /\ n_pc = "done"
  /\ n_fn = "member_of_all"
  /\ n_raised = "None"
  /\ n_result = {"g1", "g2", "g3"}

\* C27 for the graphs without a cycle
C27_WithoutCycle ==
  ~HasCycle(n_member) => C27_GroupWalkTerminates

\* a call that goes into a cycle of groups ends in RuntimeError
C27_CycleRaises ==
  (n_pc = "done" /\ n_raised = "RuntimeError") => HasCycle(n_member)

-----------------------------------------------------------------------------
(* Properties of the search handles of core.query *)

C28_WitnessExhausted ==
  /\ h_pc = "finished"
  /\ h_ended = "exhausted"
  /\ h_search.closed = 1

\* a row iteration ended by an error while a column was fetched
C28_WitnessError ==
  /\ h_pc = "finished"
  /\ h_ended = "error"
  /\ h_rows = 2
  /\ h_search.closed = 1

====
